---- MODULE Spec2Model ----
(***************************************************************************)
(* Telegram Global Poster Bot (src/bot.py): the settings store, the        *)
(* GLOBAL_POSTER repeating job, the broadcast cycle send_to_all_groups and *)
(* the owner handlers that change the settings.                            *)
(*                                                                         *)
(* Time is counted in half seconds (the shortest sleep of the program is   *)
(* asyncio.sleep(0.5)).  Every action is one run of the event loop between *)
(* two awaits: the handlers of one update run one after the other, a       *)
(* broadcast cycle is a task of its own that is suspended at each await.   *)
(***************************************************************************)
EXTENDS Integers, Sequences, FiniteSets, TLC

VARIABLES
    store,      \* the in-memory settings dict (bot.py:129)
    disk,       \* the content of global_settings.json
    mode,       \* context.user_data["mode"] of the owner, "" when unset
    captured,   \* the spans of the message set-message or /import captured last
    summary,    \* what the last /forward did and replied
    started,    \* on_startup has run
    jobs,       \* the GLOBAL_POSTER jobs registered in the job queue
    cyc         \* the executions of send_to_all_groups, one per slot

vars == <<store, disk, mode, captured, summary, started, jobs, cyc>>

----------------------------------------------------------------------------
\* Bounds of the model

\* number of distinct chat ids the recipients are drawn from
MaxGroups == 2
\* executions of send_to_all_groups that may be alive at the same time
MaxCycles == 2
\* largest retry_after (seconds) a RetryAfter error carries
MaxRetryAfter == 1
\* lines of one set_groups message
MaxLines == 1
\* rich-text spans of one captured message
MaxEnts == 2
\* entries of the recipient list of a settings file, repeated ids included
MaxStored == 3

\* Program constants
DefaultSeconds == 900
MinSeconds == 10
MaxInstances == 1

Gids == 1..MaxGroups
Slots == 1..MaxCycles
JobIds == 1..MaxCycles
RetryAfters == 1..MaxRetryAfter

\* half seconds in s seconds
Ticks(s) == 2 * s
\* asyncio.sleep(0.5) between two recipients
GapSleep == 1
\* asyncio.sleep(1) after TimedOut / NetworkError
NetSleep == Ticks(1)
\* faulty variant: asyncio.sleep(int(e.retry_after))
BackoffSleepNoMargin(n) == Ticks(n)
\* asyncio.sleep(int(e.retry_after) + 1)
BackoffSleep(n) == Ticks(n + 1)

Range(s) == {s[i] : i \in 1..Len(s)}
NoDup(s) == \A i, j \in 1..Len(s) : s[i] = s[j] => i = j
Min(S) == CHOOSE x \in S : \A y \in S : x <= y

\* faulty variant: the stored list is iterated as it is
DedupNot(s) == s

\* list(dict.fromkeys(s)): the first occurrences, in order
RECURSIVE Dedup(_)
Dedup(s) ==
    IF s = <<>> THEN <<>>
    ELSE LET r == Dedup(SubSeq(s, 1, Len(s) - 1))
             x == s[Len(s)]
         IN IF x \in Range(r) THEN r ELSE Append(r, x)


----------------------------------------------------------------------------
\* Settings store

NoTemplate == [chat_id |-> 0, message_id |-> 0]
NoPhoto == "None"
DefaultMessage == <<"H", "e", "l", "l", "o">>

DEFAULTS ==
    [message |-> DefaultMessage,
     seconds |-> DefaultSeconds,
     enabled |-> FALSE,
     groups |-> <<>>,
     buttons |-> <<>>,
     photo |-> NoPhoto,
     entities |-> <<>>,
     template |-> NoTemplate,
     template_has_keyboard |-> FALSE,
     use_forward |-> FALSE]

\* build_keyboard: the rows of the stored items that are a [label, url] pair
\* or a row of pairs; an empty result is None
build_keyboard(buttons) == SelectSeq(buttons, LAMBDA b : b \in {"pair", "row"})

\* "tpl and tpl.get('chat_id') and tpl.get('message_id')"
HasTemplate(tpl) == tpl.chat_id # 0 /\ tpl.message_id # 0

----------------------------------------------------------------------------
\* Rich-text spans

None == "None"

\* a telegram.MessageEntity
Entity(t, o, l, url, lang, ce, user) ==
    [type |-> t, offset |-> o, length |-> l, url |-> url, language |-> lang,
     custom_emoji_id |-> ce, user |-> user]

\* faulty variant: the url of the span is not stored
ent_to_dict_no_url(e) ==
    [type |-> e.type, offset |-> e.offset, length |-> e.length, url |-> None,
     language |-> e.language, custom_emoji_id |-> e.custom_emoji_id]

\* _ent_to_dict: the stored dict of a span
ent_to_dict(e) ==
    [type |-> e.type, offset |-> e.offset, length |-> e.length, url |-> e.url,
     language |-> e.language, custom_emoji_id |-> e.custom_emoji_id]

\* d.get(k, default)
Get(d, k, default) == IF k \in DOMAIN d THEN d[k] ELSE default

\* _build_entities_from_store: one MessageEntity per stored dict, user=None
build_entities_from_store(ents) ==
    [i \in 1..Len(ents) |->
        Entity(Get(ents[i], "type", None), Get(ents[i], "offset", 0),
               Get(ents[i], "length", 0), Get(ents[i], "url", None),
               Get(ents[i], "language", None), Get(ents[i], "custom_emoji_id", None),
               None)]

----------------------------------------------------------------------------
\* The GLOBAL_POSTER job and the executions of send_to_all_groups

\* A Bot API call of a cycle: kind is the method (the followup message with
\* the buttons is kind "buttons"), gid the chat_id, markup the reply_markup
\* (<<>> for None), from the template the call copies or forwards, text, ents
\* and photo the content of a message built from the store, anchor the
\* message_id of the reply_parameters (0 when it has none).
Call(kind, gid, markup, from, text, ents, photo, anchor) ==
    [kind |-> kind, gid |-> gid, markup |-> markup, from |-> from, text |-> text,
     ents |-> ents, photo |-> photo, anchor |-> anchor]

NoCall == Call("none", 0, <<>>, NoTemplate, <<>>, <<>>, NoPhoto, 0)

\* the message_id of the message the n-th primary call to chat gid produced
MsgId(gid, n) == 10 * gid + n

\* One execution of send_to_all_groups.  kb, tpl, glist, msg, photo, ents and
\* fwd (the message_id of the forward to the current recipient, 0 before it
\* returned) are the locals of the coroutine.  The other fields record what the execution
\* has done so far: att, backoffs and delivered count, per recipient, the
\* primary delivery calls, the backoff sleeps and the primary calls that
\* returned; failed holds the recipients a primary call raised for; fuRaised:
\* the followup buttons message to the current recipient raised; sent: a
\* delivery call has been issued; lastCall: the latest one; firsts: the
\* recipients of the first attempts, in the order they were made; ra, waited: the
\* retry_after of the running backoff and the time slept so far;
\* startEnabled: "enabled" as line 273 read it; jobInterval: the interval of
\* the job that started the execution.
IdleCycle ==
    [pc |-> "idle", job |-> 0, jobInterval |-> 0, startEnabled |-> FALSE,
     kb |-> <<>>, tpl |-> NoTemplate, glist |-> <<>>, i |-> 0,
     msg |-> <<>>, photo |-> NoPhoto, ents |-> <<>>,
     sleepLeft |-> 0, ra |-> 0, waited |-> 0,
     att |-> [g \in Gids |-> 0], backoffs |-> [g \in Gids |-> 0],
     delivered |-> [g \in Gids |-> 0], failed |-> {},
     sent |-> FALSE, lastCall |-> NoCall, firsts |-> <<>>,
     fwd |-> 0, fuRaised |-> FALSE]

SleepPcs == {"backoff", "netsleep", "gap"}
\* past the enabled check of line 273 and not yet returned
RunningPcs == {"att1", "fu1", "att2", "fu2"} \cup SleepPcs
\* submitted to the executor and not yet finished
AlivePcs == {"pending"} \cup RunningPcs

\* job ids no registered-and-removed job still runs an instance under
FreeJobIds == JobIds \ {cyc[c].job : c \in {x \in Slots : cyc[x].pc \in AlivePcs}}

\* faulty variant: a new job is registered without "if store.get('enabled')"
reschedule_job_always(st) ==
    {[id |-> Min(FreeJobIds), interval |-> Ticks(st.seconds), due |-> 0]}

\* faulty variant: run_repeating without first=0: the first run is one interval
\* after the registration
reschedule_job_late(st) ==
    IF st.enabled
    THEN {[id |-> Min(FreeJobIds), interval |-> Ticks(st.seconds),
           due |-> Ticks(st.seconds)]}
    ELSE {}

\* faulty variant: the registered jobs are left in the queue when the
\* settings are not enabled
reschedule_job_keep(st) ==
    IF st.enabled
    THEN {[id |-> Min(FreeJobIds), interval |-> Ticks(st.seconds), due |-> 0]}
    ELSE jobs

\* reschedule_job: remove every GLOBAL_POSTER job, and register a new one
\* (first=0) when the settings st are enabled
reschedule_job(st) ==
    IF st.enabled
    THEN {[id |-> Min(FreeJobIds), interval |-> Ticks(st.seconds), due |-> 0]}
    ELSE {}

\* the model can name the job a reschedule registers
CanReschedule(st) == st.enabled => FreeJobIds # {}

\* The scheduler runs a due job: the run is skipped when max_instances
\* instances of this job are still alive, otherwise the coroutine is submitted
\* as a task of the event loop.  The next run is one interval later.
JobFire(j) ==
    /\ started
    /\ j \in jobs
    /\ j.due = 0
    /\ LET alive == {c \in Slots : cyc[c].pc \in AlivePcs /\ cyc[c].job = j.id}
           free == {c \in Slots : cyc[c].pc \notin AlivePcs}
       IN IF Cardinality(alive) >= MaxInstances
          THEN cyc' = cyc
          ELSE /\ free # {}
               /\ cyc' = [cyc EXCEPT ![Min(free)] =
                              [IdleCycle EXCEPT !.pc = "pending", !.job = j.id,
                                                !.jobInterval = j.interval]]
    /\ jobs' = (jobs \ {j}) \cup {[j EXCEPT !.due = j.interval]}
    /\ UNCHANGED <<store, disk, mode, captured, summary, started>>

\* faulty variant: the template, the text, the spans and the photo are read
\* from the store at each delivery
PrimaryCallLive(r, gid) ==
    IF HasTemplate(store.template)
    THEN IF store.use_forward
         THEN Call("forward", gid, <<>>, store.template, <<>>, <<>>, NoPhoto, 0)
         ELSE Call("copy", gid, r.kb, store.template, <<>>, <<>>, NoPhoto, 0)
    ELSE IF store.photo # NoPhoto
         THEN Call("send_photo", gid, r.kb, NoTemplate, store.message,
                   build_entities_from_store(store.entities), store.photo, 0)
         ELSE Call("send_message", gid, r.kb, NoTemplate, store.message,
                   build_entities_from_store(store.entities), NoPhoto, 0)

\* the delivery call the loop body makes for recipient gid (lines 283-308 and
\* 351-360; the same choice is made again on the retry path)
PrimaryCall(r, gid) ==
    IF HasTemplate(r.tpl)
    THEN IF store.use_forward
         THEN Call("forward", gid, <<>>, r.tpl, <<>>, <<>>, NoPhoto, 0)
         ELSE Call("copy", gid, r.kb, r.tpl, <<>>, <<>>, NoPhoto, 0)
    ELSE IF r.photo # NoPhoto
         THEN Call("send_photo", gid, r.kb, NoTemplate, r.msg, r.ents, r.photo, 0)
         ELSE Call("send_message", gid, r.kb, NoTemplate, r.msg, r.ents, NoPhoto, 0)

\* faulty variant: the followup message is sent after a copy too
WantsFollowupAnyKind(r) == r.kb # <<>>

\* the followup message of forward mode is sent when "if kb:" holds
WantsFollowup(r) == r.lastCall.kind = "forward" /\ r.kb # <<>>

IssuePrimary(r, pc) ==
    LET gid == r.glist[r.i]
    IN [r EXCEPT !.pc = pc, !.sent = TRUE, !.lastCall = PrimaryCall(r, gid),
                 !.att[gid] = @ + 1,
                 !.firsts = IF pc = "att1" THEN Append(@, gid) ELSE @]

\* lines 290-299 / 318-327: the invisible message that carries the buttons,
\* sent as a reply to the forward
IssueFollowup(r, pc) ==
    [r EXCEPT !.pc = pc, !.sent = TRUE,
              !.lastCall = Call("buttons", r.glist[r.i], r.kb, NoTemplate, <<>>, <<>>,
                                NoPhoto, r.fwd)]

\* the primary call for the current recipient returned / raised
Delivered(r) ==
    LET gid == r.glist[r.i]
    IN [r EXCEPT !.delivered[gid] = @ + 1,
                 !.fwd = IF r.lastCall.kind = "forward" THEN MsgId(gid, r.att[gid]) ELSE @]
Raised(r) == [r EXCEPT !.failed = @ \cup {r.glist[r.i]}]

GoSleep(r, pc, d) == [r EXCEPT !.pc = pc, !.sleepLeft = d, !.ra = 0, !.waited = 0]

\* the coroutine returns: its locals are gone
Finish(r) ==
    [IdleCycle EXCEPT !.pc = "done", !.startEnabled = r.startEnabled, !.sent = r.sent]

\* the outcomes of one delivery call
Ok == [k |-> "ok", n |-> 0]
Transient == [k |-> "transient", n |-> 0]
Permanent == [k |-> "permanent", n |-> 0]
RateLimited(n) == [k |-> "retry_after", n |-> n]
Outcomes == {Ok, Transient, Permanent} \cup {RateLimited(n) : n \in RetryAfters}

\* faulty variant: the check of line 273 left out
IsEnabledAlways(st) == TRUE

\* line 273: store.get("enabled")
IsEnabled(st) == st.enabled

\* lines 273-283 / 345-351: the enabled check, the snapshot of the locals and
\* the first delivery call
CycleStart(c) ==
    /\ cyc[c].pc = "pending"
    /\ IF ~IsEnabled(store)
       THEN cyc' = [cyc EXCEPT ![c] = Finish([cyc[c] EXCEPT !.startEnabled = store.enabled])]
       ELSE LET tpl == store.template
                r0 == [cyc[c] EXCEPT !.startEnabled = store.enabled,
                                     !.kb = build_keyboard(store.buttons),
                                     !.tpl = tpl,
                                     !.glist = Dedup(store.groups),
                                     !.i = 1]
                r1 == IF HasTemplate(tpl) THEN r0
                      ELSE [r0 EXCEPT !.msg = store.message,
                                      !.photo = store.photo,
                                      !.ents = build_entities_from_store(store.entities)]
            IN cyc' = [cyc EXCEPT ![c] =
                          IF r1.glist = <<>> THEN Finish(r1)
                          ELSE IssuePrimary(r1, "att1")]
    /\ UNCHANGED <<store, disk, mode, captured, summary, started, jobs>>

\* faulty variant: the recipient a delivery call failed for is taken off the
\* stored list
SettingsAfterFailureDrop(st, gid) ==
    [st EXCEPT !.groups = SelectSeq(@, LAMBDA g : g # gid)]

\* the except clauses of lines 309-340 / 361-380 sleep or print: the settings
\* after a failed delivery call to gid are the settings before it
SettingsAfterFailure(st, gid) == st

\* faulty variant: no "except Exception": the error leaves the coroutine
OnOtherErrorPropagates(r) == Finish(Raised(r))

\* lines 339-341 / 379-381: "except Exception as e: print(...)"
OnOtherError(r) == GoSleep(Raised(r), "gap", GapSleep)

\* faulty variant: the call is made again after the sleep of a network error
OnNetworkErrorRetry(r) == GoSleep(Raised(r), "backoff", NetSleep)

\* lines 336-338 / 376-378: "except (TimedOut, NetworkError)": print and
\* asyncio.sleep(1)
OnNetworkError(r) == GoSleep(Raised(r), "netsleep", NetSleep)

\* faulty variant: a RetryAfter of the retry is slept and retried again
OnRetryErrorAgain(r, o) ==
    IF o.k = "retry_after"
    THEN [GoSleep(Raised(r), "backoff", BackoffSleep(o.n))
            EXCEPT !.ra = o.n, !.backoffs[r.glist[r.i]] = @ + 1]
    ELSE GoSleep(Raised(r), "gap", GapSleep)

\* lines 334-335 / 374-375: "except Exception as e2: print(...)" of the retry
OnRetryError(r, o) == GoSleep(Raised(r), "gap", GapSleep)

\* the first delivery call of a recipient returns or raises
AttemptResult(c, o) ==
    /\ cyc[c].pc = "att1"
    /\ LET r == cyc[c]
           gid == r.glist[r.i]
       IN /\ cyc' = [cyc EXCEPT ![c] =
               CASE o.k = "ok" ->
                      IF WantsFollowup(r) THEN IssueFollowup(Delivered(r), "fu1")
                      ELSE GoSleep(Delivered(r), "gap", GapSleep)
                 [] o.k = "retry_after" ->
                      [GoSleep(Raised(r), "backoff", BackoffSleep(o.n))
                         EXCEPT !.ra = o.n, !.waited = 0, !.backoffs[gid] = @ + 1]
                 [] o.k = "transient" -> OnNetworkError(r)
                 [] OTHER -> OnOtherError(r)]
          /\ store' = IF o.k = "ok" THEN store ELSE SettingsAfterFailure(store, gid)
    /\ UNCHANGED <<disk, mode, captured, summary, started, jobs>>

\* the backoff sleep of line 310 / 362 is over: the retry call
BackoffWake(c) ==
    /\ cyc[c].pc = "backoff"
    /\ cyc[c].sleepLeft = 0
    /\ cyc' = [cyc EXCEPT ![c] = IssuePrimary(cyc[c], "att2")]
    /\ UNCHANGED <<store, disk, mode, captured, summary, started, jobs>>

\* the retry call returns or raises: whatever it raises is printed
RetryResult(c, o) ==
    /\ cyc[c].pc = "att2"
    /\ LET r == cyc[c]
       IN /\ cyc' = [cyc EXCEPT ![c] =
               IF o.k = "ok"
               THEN IF WantsFollowup(r) THEN IssueFollowup(Delivered(r), "fu2")
                    ELSE GoSleep(Delivered(r), "gap", GapSleep)
               ELSE OnRetryError(r, o)]
          /\ store' = IF o.k = "ok" THEN store
                      ELSE SettingsAfterFailure(store, r.glist[r.i])
    /\ UNCHANGED <<disk, mode, captured, summary, started, jobs>>

\* faulty variant: a RetryAfter of the followup message reaches the outer
\* "except RetryAfter", which sleeps and forwards again
OnFollowupErrorOuter(r, o) ==
    LET r1 == [r EXCEPT !.fuRaised = TRUE]
    IN IF o.k = "retry_after" /\ r.pc = "fu1"
       THEN [GoSleep(r1, "backoff", BackoffSleep(o.n))
               EXCEPT !.ra = o.n, !.backoffs[r.glist[r.i]] = @ + 1]
       ELSE GoSleep(r1, "gap", GapSleep)

\* lines 300-301 / 328-329: "except Exception as e2: print(...)" around the
\* followup message
OnFollowupError(r, o) ==
    GoSleep([r EXCEPT !.fuRaised = TRUE], "gap", GapSleep)

\* the followup buttons message returns or raises
FollowupResult(c, o) ==
    /\ cyc[c].pc \in {"fu1", "fu2"}
    /\ o \in Outcomes
    /\ cyc' = [cyc EXCEPT ![c] =
                  IF o.k = "ok" THEN GoSleep(cyc[c], "gap", GapSleep)
                  ELSE OnFollowupError(cyc[c], o)]
    /\ UNCHANGED <<store, disk, mode, captured, summary, started, jobs>>

\* asyncio.sleep(1) of line 338 / 378 is over
NetWake(c) ==
    /\ cyc[c].pc = "netsleep"
    /\ cyc[c].sleepLeft = 0
    /\ cyc' = [cyc EXCEPT ![c] = GoSleep(cyc[c], "gap", GapSleep)]
    /\ UNCHANGED <<store, disk, mode, captured, summary, started, jobs>>

\* asyncio.sleep(0.5) of line 341 / 381 is over: the next recipient, or return
GapWake(c) ==
    /\ cyc[c].pc = "gap"
    /\ cyc[c].sleepLeft = 0
    /\ LET r == cyc[c]
       IN cyc' = [cyc EXCEPT ![c] =
            IF r.i < Len(r.glist)
            THEN IssuePrimary([r EXCEPT !.i = @ + 1, !.fwd = 0, !.fuRaised = FALSE], "att1")
            ELSE Finish(r)]
    /\ UNCHANGED <<store, disk, mode, captured, summary, started, jobs>>

\* Time passes up to the next timer: a due job and a finished sleep run first
Timers ==
    {j.due : j \in jobs} \cup
    {cyc[c].sleepLeft : c \in {x \in Slots : cyc[x].pc \in SleepPcs}}

Tick ==
    /\ started
    /\ Timers # {}
    /\ 0 \notin Timers
    /\ LET d == Min(Timers)
       IN /\ jobs' = {[j EXCEPT !.due = @ - d] : j \in jobs}
          /\ cyc' = [c \in Slots |->
                IF cyc[c].pc \in SleepPcs
                THEN [cyc[c] EXCEPT !.sleepLeft = @ - d,
                                    !.waited = IF cyc[c].pc = "backoff" THEN @ + d ELSE @]
                ELSE cyc[c]]
    /\ UNCHANGED <<store, disk, mode, captured, summary, started>>

----------------------------------------------------------------------------
\* Updates and handlers

\* A text is its sequence of characters
Str1(a) == <<a>>
DigitVal(ch) ==
    CASE ch = "0" -> 0 [] ch = "1" -> 1 [] ch = "2" -> 2 [] ch = "3" -> 3
      [] ch = "4" -> 4 [] ch = "5" -> 5 [] ch = "6" -> 6 [] ch = "7" -> 7
      [] ch = "8" -> 8 [] ch = "9" -> 9
DigitChars == {"0", "1", "2", "3", "4", "5", "6", "7", "8", "9"}
\* re.fullmatch(r"\d+", s)
IsDigits(s) == Len(s) > 0 /\ \A i \in 1..Len(s) : s[i] \in DigitChars
RECURSIVE NumVal(_)
NumVal(s) == IF s = <<>> THEN 0 ELSE 10 * NumVal(SubSeq(s, 1, Len(s) - 1)) + DigitVal(s[Len(s)])

\* parse_interval on texts of digits and letters (no spaces, signs, points or
\* capitals): [ok |-> FALSE] stands for the ValueError
Failed == [ok |-> FALSE, v |-> 0]
Parsed(v) == [ok |-> TRUE, v |-> v]
Scaled(s, unit) ==
    LET body == SubSeq(s, 1, Len(s) - 1)
    IN IF IsDigits(body) THEN Parsed(NumVal(body) * unit) ELSE Failed
parse_interval(s) ==
    CASE s # <<>> /\ s[Len(s)] = "m" -> Scaled(s, 60)
      [] s # <<>> /\ s[Len(s)] = "h" -> Scaled(s, 3600)
      [] s # <<>> /\ s[Len(s)] = "d" -> Scaled(s, 86400)
      [] IsDigits(s) -> Parsed(NumVal(s))
      [] OTHER -> Failed

\* who sent the update and where
is_owner(u) == u.private /\ u.owner
Owner == [owner |-> TRUE, private |-> TRUE]
Senders == [owner : BOOLEAN, private : BOOLEAN]

\* A private message.  text is its text; parsed is what parse_buttons_flexible
\* returns for that text; refs is how its lines resolve as chat references
\* (gid 0: _normalize_chat_ref or get_chat raises); photo is the file id of
\* its largest photo size.
Message(text, parsed, refs, entities, photo) ==
    [text |-> text, parsed |-> parsed, refs |-> refs, entities |-> entities,
     photo |-> photo]

\* The outcome of a /forward: forwarded is forwarded_count, failed the chat
\* ids of the fail list, warned the recipients whose buttons message raised,
\* calls the Bot API calls to the recipients in the order they were made.
NoSummary == [forwarded |-> 0, failed |-> <<>>, warned |-> <<>>, calls |-> <<>>]

\* what a handler works on: the settings, the file, the pending input mode,
\* whether reschedule_job has been called, and the reply it has sent to the
\* owner ("done": the change is confirmed, "error": "Error: ..." or
\* "... failed: ...", "hint": what to send instead, "": no reply)
World ==
    [store |-> store, disk |-> disk, mode |-> mode, captured |-> captured,
     summary |-> summary, resched |-> FALSE, reply |-> ""]

Reply(w, r) == [w EXCEPT !.reply = r]

\* faulty variant: the file is written only while broadcasting is disabled
save_store_disabled(w) == IF w.store.enabled THEN w ELSE [w EXCEPT !.disk = w.store]

save_store(w) == [w EXCEPT !.disk = w.store]

\* lines 540-545
MenuSetEnabled(w, b) ==
    [save_store([w EXCEPT !.store.enabled = b]) EXCEPT !.resched = TRUE]

InputModes == {"set_interval", "set_message", "set_photo", "set_buttons", "set_groups"}
MenuData == {"m:status", "m:enable", "m:disable", "m:interval", "m:message",
             "m:photo", "m:buttons", "m:groups", "m:mode", "m:help", "m:menu"}

\* faulty variant: without the test of the user id (lines 524-525)
on_menu_cb_anyone(w, u, data) ==
    LET w1 == [w EXCEPT !.mode = ""]
    IN CASE data = "m:enable" -> MenuSetEnabled(w1, TRUE)
         [] data = "m:disable" -> MenuSetEnabled(w1, FALSE)
         [] data = "m:interval" -> [w1 EXCEPT !.mode = "set_interval"]
         [] data = "m:message" -> [w1 EXCEPT !.mode = "set_message"]
         [] data = "m:photo" -> [w1 EXCEPT !.mode = "set_photo"]
         [] data = "m:buttons" -> [w1 EXCEPT !.mode = "set_buttons"]
         [] data = "m:groups" -> [w1 EXCEPT !.mode = "set_groups"]
         [] data = "m:mode" ->
              save_store([w1 EXCEPT !.store.use_forward = ~w1.store.use_forward])
         [] OTHER -> w1

on_menu_cb(w, u, data) ==
    IF ~u.owner THEN w
    ELSE LET w1 == [w EXCEPT !.mode = ""]
         IN CASE data = "m:enable" -> MenuSetEnabled(w1, TRUE)
              [] data = "m:disable" -> MenuSetEnabled(w1, FALSE)
              [] data = "m:interval" -> [w1 EXCEPT !.mode = "set_interval"]
              [] data = "m:message" -> [w1 EXCEPT !.mode = "set_message"]
              [] data = "m:photo" -> [w1 EXCEPT !.mode = "set_photo"]
              [] data = "m:buttons" -> [w1 EXCEPT !.mode = "set_buttons"]
              [] data = "m:groups" -> [w1 EXCEPT !.mode = "set_groups"]
              [] data = "m:mode" ->
                   save_store([w1 EXCEPT !.store.use_forward = ~w1.store.use_forward])
              [] OTHER -> w1

\* faulty variant: the new interval is stored without reschedule_job
SetIntervalNoReschedule(w, msg) ==
    LET secs == parse_interval(msg.text)
    IN IF ~secs.ok \/ secs.v < MinSeconds THEN Reply(w, "error")
       ELSE [save_store([w EXCEPT !.store.seconds = secs.v])
                EXCEPT !.mode = "", !.reply = "done"]

\* faulty variant: without "if secs < 10: raise ValueError"
SetIntervalAnyValue(w, msg) ==
    LET secs == parse_interval(msg.text)
    IN IF ~secs.ok THEN Reply(w, "error")
       ELSE [save_store([w EXCEPT !.store.seconds = secs.v])
                EXCEPT !.resched = TRUE, !.mode = "", !.reply = "done"]

\* lines 615-620: a text that does not parse or is below the minimum raises,
\* the reply is "Error: ..." and the mode stays
SetInterval(w, msg) ==
    LET secs == parse_interval(msg.text)
    IN IF ~secs.ok \/ secs.v < MinSeconds THEN Reply(w, "error")
       ELSE [save_store([w EXCEPT !.store.seconds = secs.v])
                EXCEPT !.resched = TRUE, !.mode = "", !.reply = "done"]

\* faulty variant: a new message takes the place of the template
SetMessageDropsTemplate(w, msg) ==
    [save_store([w EXCEPT !.store.message = msg.text,
                          !.store.entities =
                              [i \in 1..Len(msg.entities) |-> ent_to_dict(msg.entities[i])],
                          !.store.template = NoTemplate,
                          !.captured = msg.entities])
        EXCEPT !.mode = "", !.reply = "done"]

\* lines 622-628
SetMessage(w, msg) ==
    [save_store([w EXCEPT !.store.message = msg.text,
                          !.store.entities =
                              [i \in 1..Len(msg.entities) |-> ent_to_dict(msg.entities[i])],
                          !.captured = msg.entities])
        EXCEPT !.mode = "", !.reply = "done"]

ClearWords == {<<"n", "o", "n", "e">>, <<"c", "l", "e", "a", "r">>,
               <<"r", "e", "m", "o", "v", "e">>}

\* lines 630-641
SetPhoto(w, msg) ==
    LET w1 == IF msg.photo # NoPhoto
              THEN Reply(save_store([w EXCEPT !.store.photo = msg.photo]), "done")
              ELSE IF msg.text \in ClearWords
                   THEN Reply(save_store([w EXCEPT !.store.photo = NoPhoto]), "done")
                   ELSE Reply(w, "hint")
    IN [w1 EXCEPT !.mode = ""]

\* lines 643-650
SetButtons(w, msg) ==
    IF msg.parsed = <<>> THEN Reply(w, "error")
    ELSE [save_store([w EXCEPT !.store.buttons = msg.parsed])
             EXCEPT !.mode = "", !.reply = "done"]

\* one line of a set_groups message (lines 659-669)
RemoveFirst(s, x) ==
    LET i == Min({k \in 1..Len(s) : s[k] = x})
    IN SubSeq(s, 1, i - 1) \o SubSeq(s, i + 1, Len(s))
\* faulty variant: an id is appended without "if gid not in store['groups']"
ApplyLineAlwaysAppend(groups, line) ==
    IF line.gid = 0 THEN groups
    ELSE IF line.removing
         THEN IF line.gid \in Range(groups) THEN RemoveFirst(groups, line.gid) ELSE groups
         ELSE Append(groups, line.gid)
ApplyLine(groups, line) ==
    IF line.gid = 0 THEN groups
    ELSE IF line.removing
         THEN IF line.gid \in Range(groups) THEN RemoveFirst(groups, line.gid) ELSE groups
         ELSE IF line.gid \notin Range(groups) THEN Append(groups, line.gid) ELSE groups
RECURSIVE ApplyLines(_, _)
ApplyLines(groups, lines) ==
    IF lines = <<>> THEN groups
    ELSE ApplyLines(ApplyLine(groups, Head(lines)), Tail(lines))

\* lines 652-673
SetGroups(w, msg) ==
    [save_store([w EXCEPT !.store.groups = ApplyLines(w.store.groups, msg.refs)])
        EXCEPT !.mode = "", !.reply = "done"]

\* lines 608-675
owner_dm_handler(w, u, msg) ==
    IF ~is_owner(u) THEN w
    ELSE CASE w.mode = "set_interval" -> SetInterval(w, msg)
           [] w.mode = "set_message" -> SetMessage(w, msg)
           [] w.mode = "set_photo" -> SetPhoto(w, msg)
           [] w.mode = "set_buttons" -> SetButtons(w, msg)
           [] w.mode = "set_groups" -> SetGroups(w, msg)
           [] OTHER -> w

\* The message /import replies to.  fo_chat_id and fo_message_id are those of
\* its forward_origin (0 when it has none or the origin is not a channel post).
SrcMessage(cid, mid, fo_cid, fo_mid, has_kb, text, caption, ents, cap_ents, photo) ==
    [chat_id |-> cid, message_id |-> mid, fo_chat_id |-> fo_cid,
     fo_message_id |-> fo_mid, has_kb |-> has_kb, text |-> text,
     caption |-> caption, entities |-> ents,
     caption_entities |-> cap_ents, photo |-> photo]
NoSrc == SrcMessage(0, 0, 0, 0, FALSE, <<>>, <<>>, <<>>, <<>>, NoPhoto)

\* "a or b" of two sequences
OrElse(a, b) == IF a # <<>> THEN a ELSE b

\* lines 678-727
cmd_import(w, u, src) ==
    IF ~is_owner(u) THEN w
    ELSE IF src = NoSrc THEN Reply(w, "hint")
    ELSE LET origin == IF src.fo_chat_id # 0 /\ src.fo_message_id # 0
                       THEN [chat_id |-> src.fo_chat_id, message_id |-> src.fo_message_id]
                       ELSE [chat_id |-> src.chat_id, message_id |-> src.message_id]
             ents == OrElse(src.entities, src.caption_entities)
             w1 == [w EXCEPT !.store.template = origin,
                             !.store.template_has_keyboard = src.has_kb,
                             !.store.message = OrElse(src.text, src.caption),
                             !.store.entities =
                                 [i \in 1..Len(ents) |-> ent_to_dict(ents[i])],
                             !.store.photo =
                                 IF src.photo # NoPhoto THEN src.photo ELSE @,
                             !.captured = ents]
         IN [save_store(w1) EXCEPT !.resched = TRUE, !.reply = "done"]

\* the command message itself, as the handlers of the later groups see it
ImportCommand ==
    Message(<<"/", "i", "m", "p", "o", "r", "t">>, <<"pair">>,
            <<[removing |-> FALSE, gid |-> 0]>>,
            <<Entity("bot_command", 0, 7, None, None, None, None)>>, NoPhoto)

\* json.loads on the texts the owner sends: "[]", "[{}]", "{}" and digits
\* parse (list tells whether the value is a list), every other text raises
EmptyDict == [k \in {} |-> 0]
JsonValue(list, v) == [ok |-> TRUE, list |-> list, v |-> v]
JsonError == [ok |-> FALSE, list |-> FALSE, v |-> <<>>]
json_loads(s) ==
    CASE s = <<"[", "]">> -> JsonValue(TRUE, <<>>)
      [] s = <<"[", "{", "}", "]">> -> JsonValue(TRUE, <<EmptyDict>>)
      [] s = <<"{", "}">> -> JsonValue(FALSE, <<>>)
      [] IsDigits(s) -> JsonValue(FALSE, <<>>)
      [] OTHER -> JsonError

\* the argument of /mode
ArgCopy == <<"c", "o", "p", "y">>
ArgForward == <<"f", "o", "r", "w", "a", "r", "d">>

\* lines 499-508
cmd_mode(w, u, arg) ==
    IF ~is_owner(u) THEN w
    ELSE IF arg \in {ArgCopy, ArgForward}
         THEN Reply(save_store([w EXCEPT !.store.use_forward = (arg = ArgForward)]), "done")
         ELSE Reply(w, "hint")

\* faulty variant: the flag is set before the edit is known to have succeeded
cmd_attach_early(w, u, edit_ok) ==
    IF ~is_owner(u) THEN w
    ELSE IF ~HasTemplate(w.store.template) THEN Reply(w, "hint")
    ELSE IF build_keyboard(w.store.buttons) = <<>> THEN Reply(w, "hint")
    ELSE Reply(save_store([w EXCEPT !.store.template_has_keyboard = TRUE]),
               IF edit_ok THEN "done" ELSE "error")

\* lines 452-477; edit_ok: edit_message_reply_markup returned
cmd_attach(w, u, edit_ok) ==
    IF ~is_owner(u) THEN w
    ELSE IF ~HasTemplate(w.store.template) THEN Reply(w, "hint")
    ELSE IF build_keyboard(w.store.buttons) = <<>> THEN Reply(w, "hint")
    ELSE IF edit_ok
         THEN Reply(save_store([w EXCEPT !.store.template_has_keyboard = TRUE]), "done")
         ELSE Reply(w, "error")

\* lines 479-495
cmd_detach(w, u, edit_ok) ==
    IF ~is_owner(u) THEN w
    ELSE IF ~HasTemplate(w.store.template) THEN Reply(w, "hint")
    ELSE IF edit_ok
         THEN Reply(save_store([w EXCEPT !.store.template_has_keyboard = FALSE]), "done")
         ELSE Reply(w, "error")

\* lines 799-815; args is " ".join(context.args)
cmd_entities(w, u, args) ==
    IF ~is_owner(u) THEN w
    ELSE IF args # <<>>
         THEN LET j == json_loads(args)
              IN IF j.ok /\ j.list
                 THEN Reply(save_store([w EXCEPT !.store.entities = j.v]), "done")
                 ELSE Reply(w, "error")
         ELSE [w EXCEPT !.mode = "set_entities_json", !.reply = "hint"]

\* lines 817-828, behind the filter of line 900 (a private message with text)
entities_followup(w, u, msg) ==
    IF msg.text = <<>> \/ ~is_owner(u) \/ w.mode # "set_entities_json" THEN w
    ELSE LET j == json_loads(msg.text)
         IN IF j.ok /\ j.list
            THEN [save_store([w EXCEPT !.store.entities = j.v])
                     EXCEPT !.mode = "", !.reply = "done"]
            ELSE Reply(w, "error")

\* lines 729-749: the stored payload is sent to the chat of the update
cmd_preview(w, u) == IF ~is_owner(u) THEN w ELSE Reply(w, "done")

\* lines 510-521: /start and /menu
cmd_start(w, u) ==
    IF ~u.private THEN w
    ELSE IF ~is_owner(u) THEN Reply(w, "hint")
    ELSE Reply(w, "done")

\* What the Bot API does to the calls /forward makes for one recipient:
\* first and retry are the outcomes of forward_message and of its retry, fu
\* and fu2 those of the buttons messages that follow them.
CallOutcomes == [first : Outcomes, fu : Outcomes, retry : Outcomes, fu2 : Outcomes]

ForwardCallTo(gid, src) ==
    Call("forward", gid, <<>>, [chat_id |-> src.chat_id, message_id |-> src.message_id],
         <<>>, <<>>, NoPhoto, 0)
ButtonsCallTo(gid, kb, n) ==
    IF kb = <<>> THEN <<>>
    ELSE <<Call("buttons", gid, kb, NoTemplate, <<>>, <<>>, NoPhoto, MsgId(gid, n))>>

\* the recipient of a buttons message that raised (the [WARN] lines 771, 786)
Warned(gid, kb, fu) == IF kb # <<>> /\ fu.k # "ok" THEN <<gid>> ELSE <<>>

\* faulty variant: a recipient whose buttons message raised is appended to
\* the fail list although the forward to it was counted
ForwardOneCountsButtons(gid, kb, src, o) ==
    IF o.first.k = "ok"
    THEN [n |-> 1, fail |-> Warned(gid, kb, o.fu), warn |-> Warned(gid, kb, o.fu),
          calls |-> <<ForwardCallTo(gid, src)>> \o ButtonsCallTo(gid, kb, 1)]
    ELSE IF o.first.k = "retry_after"
         THEN IF o.retry.k = "ok"
              THEN [n |-> 1, fail |-> Warned(gid, kb, o.fu2), warn |-> Warned(gid, kb, o.fu2),
                    calls |-> <<ForwardCallTo(gid, src), ForwardCallTo(gid, src)>>
                              \o ButtonsCallTo(gid, kb, 2)]
              ELSE [n |-> 0, fail |-> <<gid>>, warn |-> <<>>,
                    calls |-> <<ForwardCallTo(gid, src), ForwardCallTo(gid, src)>>]
         ELSE [n |-> 0, fail |-> <<gid>>, warn |-> <<>>,
               calls |-> <<ForwardCallTo(gid, src)>>]

\* one pass of the loop body of cmd_forward (lines 759-794): n is what it
\* adds to forwarded_count, fail what it appends to the fail list, warn the
\* recipient of a buttons message that raised
ForwardOne(gid, kb, src, o) ==
    IF o.first.k = "ok"
    THEN [n |-> 1, fail |-> <<>>, warn |-> Warned(gid, kb, o.fu),
          calls |-> <<ForwardCallTo(gid, src)>> \o ButtonsCallTo(gid, kb, 1)]
    ELSE IF o.first.k = "retry_after"
         THEN IF o.retry.k = "ok"
              THEN [n |-> 1, fail |-> <<>>, warn |-> Warned(gid, kb, o.fu2),
                    calls |-> <<ForwardCallTo(gid, src), ForwardCallTo(gid, src)>>
                              \o ButtonsCallTo(gid, kb, 2)]
              ELSE [n |-> 0, fail |-> <<gid>>, warn |-> <<>>,
                    calls |-> <<ForwardCallTo(gid, src), ForwardCallTo(gid, src)>>]
         ELSE [n |-> 0, fail |-> <<gid>>, warn |-> <<>>,
               calls |-> <<ForwardCallTo(gid, src)>>]

\* the loop of line 758 over the recipients glist, from the counts so far
RECURSIVE ForwardAll(_, _, _, _, _)
ForwardAll(sofar, glist, kb, src, outs) ==
    IF glist = <<>> THEN sofar
    ELSE LET r == ForwardOne(Head(glist), kb, src, outs[Head(glist)])
         IN ForwardAll([forwarded |-> sofar.forwarded + r.n,
                        failed |-> sofar.failed \o r.fail,
                        warned |-> sofar.warned \o r.warn,
                        calls |-> sofar.calls \o r.calls],
                       Tail(glist), kb, src, outs)

\* lines 751-797; outs gives, per chat id, what happens to the calls to it
cmd_forward(w, u, src, outs) ==
    IF ~is_owner(u) THEN w
    ELSE IF src = NoSrc THEN Reply(w, "hint")
    ELSE [w EXCEPT !.summary = ForwardAll(NoSummary, Dedup(w.store.groups),
                                          build_keyboard(w.store.buttons), src, outs),
                   !.reply = "done"]

\* A command message: name is the command, arg the text after it, src the
\* message it replies to, edit_ok and outs what the Bot API does to the calls
\* of the handler.
Command(name, arg, src, edit_ok, outs) ==
    [name |-> name, arg |-> arg, src |-> src, edit_ok |-> edit_ok, outs |-> outs]

AllOk == [g \in Gids |-> [first |-> Ok, fu |-> Ok, retry |-> Ok, fu2 |-> Ok]]

CommandNames ==
    {"start", "menu", "entities", "import", "preview", "forward", "attach", "detach", "mode"}

\* the CommandHandler of group 0 that takes the message (lines 886-893)
RunCommand(w, u, c) ==
    CASE c.name \in {"start", "menu"} -> cmd_start(w, u)
      [] c.name = "entities" -> cmd_entities(w, u, c.arg)
      [] c.name = "import" -> cmd_import(w, u, c.src)
      [] c.name = "preview" -> cmd_preview(w, u)
      [] c.name = "forward" -> cmd_forward(w, u, c.src, c.outs)
      [] c.name = "attach" -> cmd_attach(w, u, c.edit_ok)
      [] c.name = "detach" -> cmd_detach(w, u, c.edit_ok)
      [] c.name = "mode" -> cmd_mode(w, u, c.arg)

NameText(name) ==
    CASE name = "start" -> <<"s", "t", "a", "r", "t">>
      [] name = "menu" -> <<"m", "e", "n", "u">>
      [] name = "entities" -> <<"e", "n", "t", "i", "t", "i", "e", "s">>
      [] name = "import" -> <<"i", "m", "p", "o", "r", "t">>
      [] name = "preview" -> <<"p", "r", "e", "v", "i", "e", "w">>
      [] name = "forward" -> <<"f", "o", "r", "w", "a", "r", "d">>
      [] name = "attach" -> <<"a", "t", "t", "a", "c", "h">>
      [] name = "detach" -> <<"d", "e", "t", "a", "c", "h">>
      [] name = "mode" -> <<"m", "o", "d", "e">>

\* the command message as the handlers of group 1 see it: a text that starts
\* with a bot_command span
CommandMessage(c) ==
    LET text == <<"/">> \o NameText(c.name) \o (IF c.arg = <<>> THEN <<>> ELSE <<" ">> \o c.arg)
    IN Message(text, <<"pair">>, <<[removing |-> FALSE, gid |-> 0]>>,
               <<Entity("bot_command", 0, 1 + Len(NameText(c.name)), None, None, None, None)>>,
               NoPhoto)

\* a handler has run: its effect on the state
Apply(w) ==
    /\ w.resched => CanReschedule(w.store)
    /\ store' = w.store
    /\ disk' = w.disk
    /\ mode' = w.mode
    /\ captured' = w.captured
    /\ summary' = w.summary
    /\ jobs' = IF w.resched THEN reschedule_job(w.store) ELSE jobs
    /\ UNCHANGED <<started, cyc>>

\* on_startup (lines 873-880)
Startup ==
    /\ ~started
    /\ started' = TRUE
    /\ CanReschedule(store)
    /\ jobs' = reschedule_job(store)
    /\ UNCHANGED <<store, disk, mode, captured, summary, cyc>>

\* a callback query of the menu
MenuCallback(u, data) ==
    /\ started
    /\ Apply(on_menu_cb(World, u, data))

\* a private message that is no command: group 0 runs entities_followup when
\* the message has a text (line 900), then group 1 runs owner_dm_handler
PrivateMessage(u, msg) ==
    /\ started
    /\ u.private
    /\ Apply(owner_dm_handler(entities_followup(World, u, msg), u, msg))

\* /import in reply to src: group 0 runs cmd_import, then group 1 runs
\* owner_dm_handler on the same command message (lines 888 and 899)
ImportUpdate(u, src) ==
    /\ started
    /\ Apply(owner_dm_handler(cmd_import(World, u, src), u, ImportCommand))

\* a command message: the CommandHandler of group 0 runs, then
\* owner_dm_handler of group 1 on the same message (line 899)
CommandUpdate(u, c) ==
    /\ started
    /\ Apply(owner_dm_handler(RunCommand(World, u, c), u, CommandMessage(c)))

\* load_store (lines 104-127) on the content of the settings file
NoFile == [k \in {} |-> 0]
load_store(data) ==
    [k \in DOMAIN DEFAULTS |-> IF k \in DOMAIN data THEN data[k] ELSE DEFAULTS[k]]

----------------------------------------------------------------------------
\* The updates the environment sends

NoRefs == <<[removing |-> FALSE, gid |-> 0]>>
\* "10", "5" and "x" sent as a text
TextTen == Message(<<"1", "0">>, <<"pair">>, NoRefs, <<>>, NoPhoto)
TextFive == Message(<<"5">>, <<"pair">>, NoRefs, <<>>, NoPhoto)
TextX == Message(<<"x">>, <<"pair">>, NoRefs, <<>>, NoPhoto)
\* "@g" and "-@g" for the public name of chat g
TextAdd(g) == Message(<<"@", "g">>, <<"pair">>, <<[removing |-> FALSE, gid |-> g]>>, <<>>, NoPhoto)
TextRemove(g) == Message(<<"-", "@", "g">>, <<"pair">>, <<[removing |-> TRUE, gid |-> g]>>, <<>>, NoPhoto)
\* a photo upload without caption
PhotoUpload == Message(<<>>, <<>>, <<>>, <<>>, "file1")

Bold == Entity("bold", 0, 1, None, None, None, None)
Link == Entity("text_link", 1, 1, "http://a", None, None, None)

\* a channel post with its own inline keyboard, forwarded to the owner
ChannelPost == SrcMessage(100, 5, 200, 7, TRUE, <<"p">>, <<>>, <<Bold>>, <<>>, NoPhoto)
\* a message the owner wrote in the private chat
OwnPost == SrcMessage(100, 6, 0, 0, FALSE, <<"q">>, <<>>, <<>>, <<>>, NoPhoto)

\* the settings file the bot finds: none, or one it wrote in an earlier run
InitWith(files) ==
    /\ \E data \in files : disk = data /\ store = load_store(data)
    /\ mode = ""
    /\ captured = <<>>
    /\ summary = NoSummary
    /\ started = FALSE
    /\ jobs = {}
    /\ cyc = [c \in Slots |-> IdleCycle]

\* one step of the execution in slot c
CycleStepOf(c) ==
    \/ CycleStart(c)
    \/ \E o \in Outcomes : AttemptResult(c, o)
    \/ BackoffWake(c)
    \/ \E o \in Outcomes : RetryResult(c, o)
    \/ \E o \in Outcomes : FollowupResult(c, o)
    \/ NetWake(c)
    \/ GapWake(c)

CycleStep == \E c \in Slots : CycleStepOf(c)

\* the steps of an execution that never runs in forward mode
CopyCycleStepOf(c) ==
    \/ CycleStart(c)
    \/ \E o \in Outcomes : AttemptResult(c, o)
    \/ BackoffWake(c)
    \/ \E o \in Outcomes : RetryResult(c, o)
    \/ NetWake(c)
    \/ GapWake(c)

\* the steps of an execution in copy mode whose calls are never rate limited
PlainCycleStepOf(c) ==
    \/ CycleStart(c)
    \/ \E o \in {Ok, Transient, Permanent} : AttemptResult(c, o)
    \/ NetWake(c)
    \/ GapWake(c)

\* the steps of an execution without buttons whose calls all return
OkCycleStepOf(c) ==
    \/ CycleStart(c)
    \/ AttemptResult(c, Ok)
    \/ GapWake(c)

Stranger == [owner |-> FALSE, private |-> TRUE]

----------------------------------------------------------------------------
\* Spec: the broadcast cycles of a bot that was configured in an earlier run,
\* while the owner enables, disables and switches the delivery mode

Template == [chat_id |-> 200, message_id |-> 7]

\* the recipient lists of the settings file: the delivery code treats every
\* chat id alike, so the lists <<1, ..., k>> stand for all lists of k ids
FirstGids == {[i \in 1..k |-> i] : k \in 0..MaxGroups}

DeliveryFiles ==
    {[DEFAULTS EXCEPT !.enabled = TRUE, !.groups = g, !.buttons = b,
                      !.template = t.tpl, !.template_has_keyboard = t.has_kb]
        : g \in FirstGids,
          b \in {<<>>, <<"pair">>},
          t \in {[tpl |-> NoTemplate, has_kb |-> FALSE],
                 [tpl |-> Template, has_kb |-> FALSE],
                 [tpl |-> Template, has_kb |-> TRUE]}}

Init == InitWith(DeliveryFiles)

Next ==
    \/ Startup
    \/ \E u \in {Owner, Stranger}, data \in {"m:disable", "m:mode"} :
          MenuCallback(u, data)
    \/ \E j \in jobs : JobFire(j)
    \/ CycleStep
    \/ Tick

Spec == Init /\ [][Next]_vars

\* every delivery call returns or raises, sleeps end, the scheduler runs
FairSpec ==
    /\ Spec
    /\ \A c \in Slots : WF_vars(CycleStepOf(c))
    /\ WF_vars(Tick)
    /\ WF_vars(\E j \in jobs : JobFire(j))

Running(c) == cyc[c].pc \in RunningPcs
CallPcs == {"att1", "fu1", "att2", "fu2"}
\* the step issues a delivery call of the execution in slot c
IssuesCall(c) == cyc'[c].pc \in CallPcs /\ cyc'[c].pc # cyc[c].pc
\* the recipient the execution in slot c is at
Current(c) == cyc[c].glist[cyc[c].i]

\* C1: an execution of send_to_all_groups that found enabled false when it
\* was invoked has issued no delivery call and is over.
C1_DisabledCycleSendsNothing ==
    \A c \in Slots :
        (cyc[c].pc \notin {"idle", "pending"} /\ ~cyc[c].startEnabled)
            => /\ cyc[c].pc = "done"
               /\ ~cyc[c].sent
               /\ cyc[c].lastCall = NoCall

C1_Witness ==
    \E c \in Slots : cyc[c].pc = "done" /\ ~cyc[c].startEnabled /\ ~store.enabled

\* C2: after RateLimited(n) on the first attempt the execution sleeps n + 1
\* seconds, makes its second attempt on that recipient, and whatever that
\* returns or raises it sleeps the gap and goes on to the next recipient (or
\* returns after the last one); no recipient gets a third attempt.
C2_RetryState(c) ==
    /\ \A g \in Gids : cyc[c].att[g] <= 2
    /\ cyc[c].pc = "att2" =>
          /\ cyc[c].waited >= Ticks(cyc[c].ra + 1)
          /\ cyc[c].ra >= 1
          /\ cyc[c].att[Current(c)] = 2
          /\ cyc[c].backoffs[Current(c)] = 1

C2_RetryStep(c) ==
    /\ cyc[c].pc = "backoff" =>
          \/ cyc'[c].pc = "backoff" /\ cyc'[c].att = cyc[c].att
          \/ cyc'[c].pc = "att2" /\ cyc'[c].i = cyc[c].i
    /\ cyc[c].pc \in {"att2", "fu2"} =>
          /\ cyc'[c].pc \in {cyc[c].pc, "fu2", "gap"}
          /\ cyc'[c].i = cyc[c].i
          /\ cyc'[c].att = cyc[c].att
    /\ cyc[c].pc = "gap" =>
          \/ cyc'[c].pc = "gap" /\ cyc'[c].att = cyc[c].att
          \/ /\ cyc[c].i < Len(cyc[c].glist)
             /\ cyc'[c].pc = "att1"
             /\ cyc'[c].i = cyc[c].i + 1
             /\ cyc'[c].att[cyc[c].glist[cyc[c].i + 1]] = 1
          \/ cyc[c].i = Len(cyc[c].glist) /\ cyc'[c].pc = "done"

C2_RetryOnceThenGoOn ==
    /\ [](\A c \in Slots : C2_RetryState(c))
    /\ [][\A c \in Slots : C2_RetryStep(c)]_vars

\* the second recipient is being attempted after the first was retried
C2_Witness ==
    \E c \in Slots :
        /\ cyc[c].pc = "att1"
        /\ cyc[c].i = 2
        /\ cyc[c].att[cyc[c].glist[1]] = 2
        /\ cyc[c].backoffs[cyc[c].glist[1]] = 1
        /\ cyc[c].glist[1] \in cyc[c].failed
        /\ cyc[c].delivered[cyc[c].glist[1]] = 0

\* C3: an execution stops only by returning after the gap sleep of its last
\* recipient, with a delivery attempt made for every recipient of its list,
\* whatever the attempts raised.
C3_FailureNeverAborts ==
    [][\A c \in Slots :
          (Running(c) /\ cyc'[c].pc \notin RunningPcs)
              => /\ cyc[c].pc = "gap"
                 /\ cyc[c].i = Len(cyc[c].glist)
                 /\ cyc'[c].pc = "done"
                 /\ \A k \in 1..Len(cyc[c].glist) : cyc[c].att[cyc[c].glist[k]] >= 1]_vars

\* the last recipient is being attempted after an earlier one failed without
\* a retry
C3_Witness ==
    \E c \in Slots :
        /\ cyc[c].pc = "att1"
        /\ cyc[c].i = Len(cyc[c].glist)
        /\ cyc[c].i >= 2
        /\ cyc[c].glist[1] \in cyc[c].failed
        /\ cyc[c].backoffs[cyc[c].glist[1]] = 0

\* C7 (as claimed): while template_has_keyboard is true no execution that
\* delivers the template attaches the configured buttons to a copy or sends
\* the followup buttons message.
C7_NoSecondKeyboard ==
    \A c \in Slots :
        (Running(c) /\ HasTemplate(cyc[c].tpl) /\ store.template_has_keyboard)
            => /\ ~(cyc[c].lastCall.kind = "copy" /\ cyc[c].lastCall.markup # <<>>)
               /\ cyc[c].lastCall.kind # "buttons"

\* C17: a recipient gets a second attempt only after a backoff sleep, which
\* only RateLimited on the first attempt starts; a first attempt that raises
\* Transient is followed by the sleep of one second, then the gap sleep, then
\* the next recipient; one that raises Permanent by the gap sleep and the
\* next recipient.
C17_State(c) ==
    /\ \A g \in Gids : cyc[c].att[g] >= 2 => cyc[c].backoffs[g] = 1
    /\ cyc[c].pc = "backoff" => cyc[c].ra \in RetryAfters
    /\ cyc[c].pc \in {"netsleep", "backoff"} =>
          /\ cyc[c].att[Current(c)] = 1
          /\ Current(c) \in cyc[c].failed

C17_StepOf(c) ==
    /\ (cyc'[c].pc = "att2" /\ cyc[c].pc # "att2") => cyc[c].pc = "backoff"
    /\ (cyc'[c].pc = "netsleep" /\ cyc[c].pc # "netsleep") =>
          /\ cyc[c].pc = "att1"
          /\ cyc'[c].sleepLeft = Ticks(1)
    /\ cyc[c].pc = "netsleep" =>
          \/ /\ cyc'[c].pc = "netsleep"
             /\ cyc'[c].sleepLeft <= cyc[c].sleepLeft
             /\ cyc'[c].att = cyc[c].att
          \/ /\ cyc[c].sleepLeft = 0
             /\ cyc'[c].pc = "gap"
             /\ cyc'[c].sleepLeft = GapSleep
             /\ cyc'[c].i = cyc[c].i
             /\ cyc'[c].att = cyc[c].att
    /\ (cyc[c].pc = "gap" /\ cyc'[c].pc \in CallPcs) =>
          /\ cyc'[c].pc = "att1"
          /\ cyc'[c].i = cyc[c].i + 1

C17_OnlyRateLimitRetries ==
    /\ [](\A c \in Slots : C17_State(c))
    /\ [][\A c \in Slots : C17_StepOf(c)]_vars

\* the second recipient is being attempted one and a half seconds after the
\* cycle began: the only attempt on the first one raised Transient
C17_Witness ==
    \E c \in Slots, j \in jobs :
        /\ cyc[c].pc = "att1"
        /\ cyc[c].i = 2
        /\ cyc[c].job = j.id
        /\ j.due = j.interval - (NetSleep + GapSleep)
        /\ cyc[c].att[cyc[c].glist[1]] = 1
        /\ cyc[c].glist[1] \in cyc[c].failed

\* C18: no recipient has more than one primary delivery call that returned;
\* a recipient whose first attempt returned has had exactly that one attempt;
\* and whatever the followup buttons message raises, the execution goes on
\* to the gap sleep without another primary call to that recipient.
C18_State(c) ==
    /\ \A g \in Gids :
          /\ cyc[c].delivered[g] <= 1
          /\ cyc[c].delivered[g] = 1 =>
                \/ cyc[c].att[g] = 1 /\ g \notin cyc[c].failed
                \/ cyc[c].att[g] = 2 /\ g \in cyc[c].failed
    /\ cyc[c].fuRaised => (cyc[c].pc = "gap" /\ cyc[c].delivered[Current(c)] = 1)

C18_StepOf(c) ==
    /\ (cyc[c].pc = "att1" /\ cyc'[c].pc \in {"fu1", "gap"}
          /\ Current(c) \notin cyc'[c].failed) =>
          cyc'[c].delivered[Current(c)] = 1
    /\ cyc[c].pc \in {"fu1", "fu2"} =>
          \/ cyc'[c] = cyc[c]
          \/ /\ cyc'[c].pc = "gap"
             /\ cyc'[c].att = cyc[c].att
             /\ cyc'[c].delivered = cyc[c].delivered

C18_OnePrimaryDelivery ==
    /\ [](\A c \in Slots : C18_State(c))
    /\ [][\A c \in Slots : C18_StepOf(c)]_vars

\* the followup message to the first of two recipients raised after its
\* forward had been delivered at the first attempt; the execution sleeps the
\* gap before the second recipient
C18_Witness ==
    \E c \in Slots :
        /\ cyc[c].pc = "gap"
        /\ cyc[c].i = 1
        /\ Len(cyc[c].glist) >= 2
        /\ cyc[c].fuRaised
        /\ cyc[c].lastCall.kind = "buttons"
        /\ cyc[c].att[Current(c)] = 1
        /\ cyc[c].delivered[Current(c)] = 1

FollowupPcs == {"fu1", "fu2"}

\* C19: a followup buttons message is issued only in the step in which a
\* forward to the same recipient returned, by an execution that has buttons;
\* it replies to the message that forward produced; a forward that returned
\* for an execution with buttons is followed by it at once, before any other
\* call; and no followup is issued after a forward that raised or after a
\* copy.
C19_State(c) ==
    cyc[c].pc \in FollowupPcs =>
        /\ cyc[c].lastCall.kind = "buttons"
        /\ cyc[c].lastCall.gid = Current(c)
        /\ cyc[c].lastCall.markup = cyc[c].kb
        /\ cyc[c].kb # <<>>
        /\ cyc[c].delivered[Current(c)] = 1
        /\ cyc[c].lastCall.anchor = MsgId(Current(c), cyc[c].att[Current(c)])

C19_StepOf(c) ==
    /\ (cyc'[c].lastCall.kind = "buttons" /\ cyc'[c].lastCall # cyc[c].lastCall) =>
          /\ cyc[c].pc \in {"att1", "att2"}
          /\ cyc'[c].pc \in FollowupPcs
          /\ cyc[c].lastCall.kind = "forward"
          /\ cyc[c].lastCall.gid = cyc'[c].lastCall.gid
          /\ cyc'[c].i = cyc[c].i
          /\ cyc'[c].delivered[Current(c)] = cyc[c].delivered[Current(c)] + 1
    /\ (cyc[c].pc \in {"att1", "att2"} /\ cyc[c].lastCall.kind = "forward"
          /\ cyc[c].kb # <<>> /\ cyc'[c].delivered # cyc[c].delivered) =>
          cyc'[c].pc \in FollowupPcs
    /\ (cyc[c].pc \in {"att1", "att2"} /\ cyc'[c].pc # cyc[c].pc
          /\ (cyc[c].lastCall.kind # "forward" \/ cyc'[c].delivered = cyc[c].delivered)) =>
          cyc'[c].pc \notin FollowupPcs

C19_FollowupAfterForward ==
    /\ [](\A c \in Slots : C19_State(c))
    /\ [][\A c \in Slots : C19_StepOf(c)]_vars

\* the followup to the second recipient replies to the forward that the
\* retry delivered; the first recipient was delivered to at the first attempt
C19_Witness ==
    \E c \in Slots :
        /\ cyc[c].pc = "fu2"
        /\ cyc[c].i = 2
        /\ cyc[c].lastCall.anchor = MsgId(cyc[c].glist[2], 2)
        /\ cyc[c].delivered[cyc[c].glist[1]] = 1
        /\ cyc[c].att[cyc[c].glist[1]] = 1

RECURSIVE SumOver(_, _)
SumOver(f, S) ==
    IF S = {} THEN 0
    ELSE LET x == CHOOSE y \in S : TRUE IN f[x] + SumOver(f, S \ {x})

\* C10: an execution makes at most two primary delivery calls and at most one
\* backoff sleep per recipient, at most 2k calls for its k recipients, and
\* every execution that has started delivering returns.
C10_Bounded(c) ==
    /\ \A g \in Gids :
          /\ cyc[c].att[g] <= 2
          /\ cyc[c].backoffs[g] <= 1
          /\ cyc[c].att[g] > 0 => g \in Range(cyc[c].glist)
    /\ SumOver(cyc[c].att, Gids) <= 2 * Len(cyc[c].glist)
    /\ NoDup(cyc[c].glist)

C10_CycleTerminates ==
    /\ [](\A c \in Slots : C10_Bounded(c))
    /\ \A c \in Slots : Running(c) ~> (cyc[c].pc = "done")

\* both attempts have been made for each of two recipients
C10_Witness ==
    \E c \in Slots :
        /\ cyc[c].pc = "gap"
        /\ cyc[c].i = Len(cyc[c].glist)
        /\ Len(cyc[c].glist) >= 2
        /\ \A g \in Range(cyc[c].glist) : cyc[c].att[g] = 2

\* C13: a step of a cycle (a call returning or raising, a sleep ending, the
\* scheduler starting an execution, time passing) leaves the settings and the
\* settings file as they are, and an execution that starts takes every id of
\* the stored list as a recipient, whatever earlier calls to it raised.
C13_Step ==
    /\ (cyc' # cyc) => (store' = store /\ disk' = disk)
    /\ \A c \in Slots :
          (cyc[c].pc = "pending" /\ cyc'[c].pc \in RunningPcs) =>
              /\ Range(cyc'[c].glist) = Range(store'.groups)
              /\ cyc'[c].failed = {}

C13_CycleLeavesSettings == [][C13_Step]_vars

\* every recipient of an execution has failed, one of them in the retry too,
\* and all of them are still stored, in memory and in the file
C13_Witness ==
    \E c \in Slots :
        /\ cyc[c].pc = "gap"
        /\ cyc[c].i = Len(cyc[c].glist)
        /\ Len(cyc[c].glist) >= 2
        /\ cyc[c].failed = Range(cyc[c].glist)
        /\ \E g \in cyc[c].failed : cyc[c].att[g] = 2
        /\ \E g \in cyc[c].failed : cyc[c].att[g] = 1
        /\ store.groups = cyc[c].glist
        /\ disk.groups = cyc[c].glist

----------------------------------------------------------------------------
\* SpecStored: the cycles of an enabled bot whose settings file holds any list
\* of chat ids, repeated ids included (load_store takes the list as it is)

StoredLists == UNION {[1..k -> Gids] : k \in 0..MaxStored}

StoredFiles == {[DEFAULTS EXCEPT !.enabled = TRUE, !.groups = g] : g \in StoredLists}

InitStored == InitWith(StoredFiles)

NextStored ==
    \/ Startup
    \/ \E u \in {Owner, Stranger} : MenuCallback(u, "m:disable")
    \/ \E j \in jobs : JobFire(j)
    \/ \E c \in Slots : CopyCycleStepOf(c)
    \/ Tick

SpecStored == InitStored /\ [][NextStored]_vars

\* the ids of s without the positions that repeat an earlier id
FirstOccurrences(s) ==
    LET keep == {k \in 1..Len(s) : \A j \in 1..(k - 1) : s[j] # s[k]}
        rank(k) == Cardinality({j \in keep : j <= k})
    IN [n \in 1..Cardinality(keep) |-> s[CHOOSE k \in keep : rank(k) = n]]

\* C11: the first attempts an execution has made so far are for the first
\* i distinct ids of the stored list, one each, in the order of their first
\* occurrence; an execution returns only after the last of them.
C11_FirstAttempts(c) ==
    LET want == FirstOccurrences(store.groups)
    IN /\ Running(c) =>
             /\ cyc[c].i \in 1..Len(want)
             /\ cyc[c].firsts = SubSeq(want, 1, cyc[c].i)
       /\ (Running(c) /\ cyc'[c].pc = "done") => cyc[c].firsts = want

C11_OneFirstAttemptInOrder == [][\A c \in Slots : C11_FirstAttempts(c)]_vars

\* the stored list names its first id again after the second: the second
\* distinct id is the last one attempted
C11_Witness ==
    \E c \in Slots :
        /\ Len(store.groups) >= 3
        /\ store.groups[3] = store.groups[1]
        /\ store.groups[2] # store.groups[1]
        /\ cyc[c].pc = "gap"
        /\ cyc[c].firsts = <<store.groups[1], store.groups[2]>>

----------------------------------------------------------------------------
\* SpecEdit: the owner edits the delivery mode, the buttons, the message and
\* the recipients of an enabled bot while its cycles deliver

EditFiles ==
    {[DEFAULTS EXCEPT !.enabled = TRUE, !.groups = [i \in 1..MaxGroups |-> i],
                      !.template = t]
        : t \in {NoTemplate, Template}}

InitEdit == InitWith(EditFiles)

NextEdit ==
    \/ Startup
    \/ \E data \in {"m:mode", "m:buttons", "m:message", "m:groups"} :
          MenuCallback(Owner, data)
    \/ PrivateMessage(Owner, TextRemove(1))
    \/ \E j \in jobs : JobFire(j)
    \/ CycleStep
    \/ Tick

SpecEdit == InitEdit /\ [][NextEdit]_vars

\* the delivery call for recipient gid that a template, a delivery mode, a
\* keyboard, a text, its spans and a photo dictate
ConfiguredCall(tpl, forward, kb, msg, ents, photo, gid) ==
    IF HasTemplate(tpl)
    THEN IF forward
         THEN Call("forward", gid, <<>>, tpl, <<>>, <<>>, NoPhoto, 0)
         ELSE Call("copy", gid, kb, tpl, <<>>, <<>>, NoPhoto, 0)
    ELSE Call(IF photo # NoPhoto THEN "send_photo" ELSE "send_message", gid, kb,
              NoTemplate, msg, ents, photo, 0)

\* the execution in slot c has delivered in forward mode so far
ForwardSoFar(c) == cyc[c].lastCall.kind \in {"forward", "buttons"}
\* the step issues a primary delivery call of the execution in slot c
IssuesPrimary(c) == cyc'[c].pc \in {"att1", "att2"} /\ cyc'[c].pc # cyc[c].pc

\* C12 (as claimed): the first delivery call of an execution is the one the
\* settings at its invocation dictate, to the first id of the list stored at
\* its invocation; every later primary call, the retry included, is the same
\* call (same mode, template, buttons, text, spans and photo) to the next
\* recipient of that list, whatever the owner has changed in between.
C12_Step(c) ==
    /\ (cyc[c].pc = "pending" /\ IssuesPrimary(c)) =>
          /\ cyc'[c].glist = FirstOccurrences(store.groups)
          /\ cyc'[c].lastCall =
                ConfiguredCall(store.template, store.use_forward,
                               build_keyboard(store.buttons), store.message,
                               build_entities_from_store(store.entities),
                               store.photo, store.groups[1])
    /\ (Running(c) /\ cyc'[c].pc \in RunningPcs) => cyc'[c].glist = cyc[c].glist
    /\ (Running(c) /\ IssuesPrimary(c)) =>
          cyc'[c].lastCall =
              ConfiguredCall(cyc[c].lastCall.from, ForwardSoFar(c),
                             cyc[c].lastCall.markup, cyc[c].lastCall.text,
                             cyc[c].lastCall.ents, cyc[c].lastCall.photo,
                             cyc[c].glist[cyc'[c].i])

C12_DeliversStartSettings == [][\A c \in Slots : C12_Step(c)]_vars

----------------------------------------------------------------------------
\* SpecKind: the owner imports a template and uploads a photo while the
\* cycles of an enabled bot deliver to two recipients, in copy or in forward
\* mode; no buttons are stored and every call returns

KindFiles ==
    {[DEFAULTS EXCEPT !.enabled = TRUE, !.groups = <<1, 2>>, !.use_forward = f,
                      !.entities = <<ent_to_dict(Link)>>]
        : f \in BOOLEAN}

InitKind == InitWith(KindFiles)

NextKind ==
    \/ Startup
    \/ MenuCallback(Owner, "m:photo")
    \/ PrivateMessage(Owner, PhotoUpload)
    \/ ImportUpdate(Owner, ChannelPost)
    \/ \E j \in jobs : JobFire(j)
    \/ \E c \in Slots : OkCycleStepOf(c)
    \/ Tick

SpecKind == InitKind /\ [][NextKind]_vars

TemplateKinds == {"copy", "forward"}

\* C20: the first delivery call of an execution is a copy or a forward of the
\* stored template when the store holds one with chat_id and message_id, and
\* otherwise a send_photo (when a photo is stored) or a send_message with the
\* stored text and the spans rebuilt from the store; every later primary call
\* of the execution is of the same family, for the same template or with the
\* same text, spans and photo, whatever the store holds by then.
C20_StepOf(c) ==
    /\ (cyc[c].pc = "pending" /\ IssuesPrimary(c)) =>
          LET call == cyc'[c].lastCall
          IN IF HasTemplate(store.template)
             THEN /\ call.kind \in TemplateKinds
                  /\ call.from = store.template
                  /\ cyc'[c].tpl = store.template
             ELSE /\ call.kind = (IF store.photo # NoPhoto THEN "send_photo"
                                  ELSE "send_message")
                  /\ call.from = NoTemplate
                  /\ call.text = store.message
                  /\ call.ents = build_entities_from_store(store.entities)
                  /\ call.photo = store.photo
    /\ (Running(c) /\ cyc'[c].pc \in RunningPcs) => cyc'[c].tpl = cyc[c].tpl
    /\ (Running(c) /\ IssuesPrimary(c)) =>
          LET prev == cyc[c].lastCall
              call == cyc'[c].lastCall
          IN IF prev.kind \in TemplateKinds \cup {"buttons"}
             THEN /\ call.kind \in TemplateKinds
                  /\ call.from = cyc[c].tpl
             ELSE call = [prev EXCEPT !.gid = call.gid]

C20_KindDecidedAtStart == [][\A c \in Slots : C20_StepOf(c)]_vars

\* the second recipient gets the text built at the start of the cycle though
\* the owner has imported a template in the meantime, which a younger
\* execution forwards
C20_Witness ==
    \E c, d \in Slots :
        /\ cyc[c].pc = "att1"
        /\ cyc[c].i = 2
        /\ cyc[c].lastCall.kind = "send_message"
        /\ cyc[c].lastCall.text = DefaultMessage
        /\ HasTemplate(store.template)
        /\ store.message # DefaultMessage
        /\ cyc[d].pc = "att1"
        /\ cyc[d].lastCall.kind = "forward"
        /\ cyc[d].lastCall.from = store.template

----------------------------------------------------------------------------
\* SpecSched: the GLOBAL_POSTER job while the owner enables, disables, sets
\* the interval and imports a template; the cycles deliver to one recipient

SchedFiles == {NoFile, [DEFAULTS EXCEPT !.groups = <<1>>]}

InitSched == InitWith(SchedFiles)

NextSched ==
    \/ Startup
    \/ \E u \in {Owner, Stranger}, data \in {"m:enable", "m:disable", "m:interval"} :
          MenuCallback(u, data)
    \/ \E u \in {Owner, Stranger}, msg \in {TextTen, TextFive} : PrivateMessage(u, msg)
    \/ \E u \in {Owner, Stranger}, src \in {NoSrc, ChannelPost} : ImportUpdate(u, src)
    \/ \E j \in jobs : JobFire(j)
    \/ \E c \in Slots : CopyCycleStepOf(c)
    \/ Tick

SpecSched == InitSched /\ [][NextSched]_vars

\* C4 (as claimed): at most one execution of send_to_all_groups is delivering
\* at any moment.
C4_AtMostOneCycle == Cardinality({c \in Slots : Running(c)}) <= 1

----------------------------------------------------------------------------
\* SpecTimer: the GLOBAL_POSTER job of a bot without recipients, while the
\* owner enables, disables, sets the interval and imports a template; an
\* execution returns as soon as it has started

TimerFiles == {NoFile, [DEFAULTS EXCEPT !.enabled = TRUE]}

InitTimer == InitWith(TimerFiles)

NextTimer ==
    \/ Startup
    \/ \E u \in {Owner, Stranger}, data \in {"m:enable", "m:disable", "m:interval"} :
          MenuCallback(u, data)
    \/ \E u \in {Owner, Stranger}, msg \in {TextTen, TextFive} : PrivateMessage(u, msg)
    \/ \E u \in {Owner, Stranger}, src \in {NoSrc, ChannelPost} : ImportUpdate(u, src)
    \/ \E j \in jobs : JobFire(j)
    \/ \E c \in Slots : CycleStart(c)
    \/ Tick

SpecTimer == InitTimer /\ [][NextTimer]_vars

\* C14: once on_startup has run, exactly one GLOBAL_POSTER job is registered
\* while enabled is true and none while it is false, and a registered job has
\* the stored interval.
C14_OneTimerIffEnabled ==
    started =>
        /\ Cardinality(jobs) = (IF store.enabled THEN 1 ELSE 0)
        /\ \A j \in jobs : j.interval = Ticks(store.seconds)

\* the owner has set the interval and imported a template; the bot is
\* enabled and the one job has run at least once
C14_Witness ==
    /\ started
    /\ store.enabled
    /\ store.seconds = MinSeconds
    /\ HasTemplate(store.template)
    /\ mode = ""
    /\ \E j \in jobs : j.due > 0 /\ j.interval = Ticks(MinSeconds)

\* the scheduler runs due jobs and the event loop runs the submitted tasks
FairSpecTimer ==
    /\ SpecTimer
    /\ WF_vars(\E j \in jobs : JobFire(j))
    /\ WF_vars(\E c \in Slots : CycleStart(c))
    /\ WF_vars(Tick)

\* C15: a job enters the queue due at once (delay 0), whatever registered it;
\* the time to its next run grows only when it runs, to exactly one interval,
\* and shrinks only as time passes; and while a job is due no time passes
\* until an execution of send_to_all_groups has been submitted, unless the
\* owner disables first.
C15_Step ==
    \A k \in jobs' :
        \/ k \in jobs
        \/ k.due = 0
        \/ \E j \in jobs :
              /\ j.id = k.id
              /\ j.interval = k.interval
              /\ \/ j.due = 0 /\ k.due = k.interval /\ jobs' = (jobs \ {j}) \cup {k}
                 \/ k.due < j.due /\ UNCHANGED <<store, disk, mode, captured, started>>

C15_NoWait ==
    (\E j \in jobs : j.due = 0) => \A j \in jobs' : j \in jobs \/ j.due \in {0, j.interval}

C15_Submitted(id) == \E c \in Slots : cyc[c].pc = "pending" /\ cyc[c].job = id

C15_FirstFireImmediate ==
    /\ [][C15_Step /\ C15_NoWait]_vars
    /\ ((\E j \in jobs : j.due = 0) /\ \A id \in JobIds : ~C15_Submitted(id))
          ~> ((\E id \in JobIds : C15_Submitted(id)) \/ ~store.enabled)

\* the bot had been disabled (an execution found enabled false); after a new
\* enable the first run of the job has submitted an execution, and the next
\* run is one interval away
C15_Witness ==
    /\ store.enabled
    /\ \E c \in Slots : cyc[c].pc = "done" /\ ~cyc[c].startEnabled
    /\ \E j \in jobs : j.due = j.interval /\ C15_Submitted(j.id)

----------------------------------------------------------------------------
\* SpecToggle: the owner enables and disables while the cycles deliver to one
\* recipient

ToggleFiles == {[DEFAULTS EXCEPT !.groups = <<1>>]}

InitToggle == InitWith(ToggleFiles)

NextToggle ==
    \/ Startup
    \/ \E data \in {"m:enable", "m:disable"} : MenuCallback(Owner, data)
    \/ \E j \in jobs : JobFire(j)
    \/ \E c \in Slots : CopyCycleStepOf(c)
    \/ Tick

SpecToggle == InitToggle /\ [][NextToggle]_vars

\* C5 (as claimed): while enabled is false no delivery call is issued.
C5_NoSendAfterDisable ==
    [][\A c \in Slots : ~store.enabled => ~IssuesCall(c)]_vars

\* C5 (amended): while enabled is false a delivery call is issued only by an
\* execution that was already delivering; one that was still pending or is
\* invoked later returns without a call.
C5_OnlyStartedCyclesSend ==
    [][\A c \in Slots : (~store.enabled /\ IssuesCall(c)) => Running(c)]_vars

\* the owner has disabled: a pending execution has returned without a call
\* while an older one is still delivering
C5_Witness ==
    /\ ~store.enabled
    /\ jobs = {}
    /\ \E c \in Slots : cyc[c].pc = "done" /\ ~cyc[c].startEnabled /\ ~cyc[c].sent
    /\ \E c \in Slots : Running(c)

\* SpecDisable: as SpecToggle, with no call rate limited
NextDisable ==
    \/ Startup
    \/ \E data \in {"m:enable", "m:disable"} : MenuCallback(Owner, data)
    \/ \E j \in jobs : JobFire(j)
    \/ \E c \in Slots : PlainCycleStepOf(c)
    \/ Tick

SpecDisable == InitToggle /\ [][NextDisable]_vars

\* C16: while enabled is false no GLOBAL_POSTER job is registered, and no
\* execution begins to deliver: one that is invoked returns without a
\* delivery call.  Only after a later enable does an execution deliver again.
C16_Cancelled == (started /\ ~store.enabled) => jobs = {}

C16_Step(c) ==
    /\ (~store.enabled /\ ~Running(c)) => cyc'[c].pc \notin RunningPcs
    /\ (~store.enabled /\ cyc[c].pc = "pending" /\ cyc'[c].pc # "pending") =>
          /\ cyc'[c].pc = "done"
          /\ ~cyc'[c].sent
          /\ cyc'[c].lastCall = NoCall
    /\ (~Running(c) /\ cyc'[c].pc \in RunningPcs) =>
          /\ store.enabled
          /\ cyc[c].pc = "pending"

C16_NoNewCycleWhileDisabled ==
    /\ []C16_Cancelled
    /\ [][\A c \in Slots : C16_Step(c)]_vars

\* the owner has disabled and the file says so: the job is gone, the
\* execution that was still pending has returned without a call, and
\* nothing is delivering
C16_Witness ==
    /\ started
    /\ ~store.enabled
    /\ ~disk.enabled
    /\ jobs = {}
    /\ \A c \in Slots : ~Running(c) /\ cyc[c].pc # "pending"
    /\ \E c \in Slots : cyc[c].pc = "done" /\ ~cyc[c].startEnabled /\ ~cyc[c].sent

----------------------------------------------------------------------------
\* SpecInterval: the owner of an enabled bot sets the interval while the
\* cycles deliver to one recipient; no call is rate limited

IntervalFiles == {[DEFAULTS EXCEPT !.enabled = TRUE, !.groups = <<1>>]}

InitInterval == InitWith(IntervalFiles)

NextInterval ==
    \/ Startup
    \/ \E data \in {"m:interval", "m:disable"} : MenuCallback(Owner, data)
    \/ \E msg \in {TextTen, TextFive} : PrivateMessage(Owner, msg)
    \/ \E j \in jobs : JobFire(j)
    \/ \E c \in Slots : PlainCycleStepOf(c)
    \/ Tick

SpecInterval == InitInterval /\ [][NextInterval]_vars

\* C6: the one registered job always has the stored interval; a change of the
\* interval while enabled leaves exactly one job, with the new interval and
\* due at once; and each run of a job puts its next run one stored interval
\* later.
C6_JobState ==
    /\ Cardinality(jobs) <= 1
    /\ \A j \in jobs : j.interval = Ticks(store.seconds) /\ j.due <= j.interval

C6_JobStep ==
    /\ (store'.seconds # store.seconds /\ store'.enabled) =>
          \E j \in jobs' :
              /\ jobs' = {j}
              /\ j.interval = Ticks(store'.seconds)
              /\ j.due = 0
    /\ \A j \in jobs, k \in jobs' :
          (j.id = k.id /\ k.due > j.due) =>
              /\ j.due = 0
              /\ k.due = Ticks(store.seconds)
              /\ k.interval = Ticks(store.seconds)

C6_IntervalChangeReschedules == []C6_JobState /\ [][C6_JobStep]_vars

\* the interval was changed to the minimum while an execution started by the
\* job of the default interval is still alive, and the new job has run once
C6_Witness ==
    /\ store.enabled
    /\ store.seconds = MinSeconds
    /\ \E j \in jobs, c \in Slots :
          /\ j.interval = Ticks(MinSeconds)
          /\ j.due > 0
          /\ cyc[c].pc \in AlivePcs
          /\ cyc[c].jobInterval = Ticks(DefaultSeconds)
          /\ cyc[c].job # j.id

----------------------------------------------------------------------------
\* SpecEnt: the owner captures messages with rich-text spans, by set-message
\* and by /import; broadcasting stays disabled

Mention == Entity("text_mention", 0, 1, None, None, None, "user7")
Emoji == Entity("custom_emoji", 1, 2, None, None, "5381", None)
Pre == Entity("pre", 0, 2, None, "python", None, None)
EntPool == {Bold, Link, Mention, Emoji, Pre}
EntSeqs == UNION {[1..k -> EntPool] : k \in 0..MaxEnts}

EntMessages == {Message(<<"t">>, <<"pair">>, NoRefs, es, NoPhoto) : es \in EntSeqs}
EntSources ==
    {NoSrc}
    \cup {SrcMessage(100, 6, 0, 0, FALSE, <<"q">>, <<>>, es, <<>>, NoPhoto) : es \in EntSeqs}
    \cup {SrcMessage(100, 5, 200, 7, TRUE, <<>>, <<"c">>, <<>>, es, "file1") : es \in EntSeqs}

InitEnt == InitWith({NoFile})

NextEnt ==
    \/ Startup
    \/ \E u \in {Owner, Stranger} : MenuCallback(u, "m:message")
    \/ \E u \in {Owner, Stranger}, msg \in EntMessages : PrivateMessage(u, msg)
    \/ \E u \in {Owner, Stranger}, src \in EntSources : ImportUpdate(u, src)

SpecEnt == InitEnt /\ [][NextEnt]_vars

SpanTuple(e) == <<e.type, e.offset, e.length, e.url>>

\* C8: the spans rebuilt from the store are as many as the spans of the
\* message captured last, in the same order, each with the same type, offset,
\* length and url.
C8_SpansRoundTrip ==
    LET rebuilt == build_entities_from_store(store.entities)
    IN /\ Len(rebuilt) = Len(captured)
       /\ \A i \in 1..Len(captured) : SpanTuple(rebuilt[i]) = SpanTuple(captured[i])

\* two spans were captured, a link first
C8_Witness ==
    /\ Len(captured) >= 2
    /\ captured[1].url # None
    /\ captured[2].type # captured[1].type
    /\ Len(store.entities) = Len(captured)

----------------------------------------------------------------------------
\* SpecGroups: the owner configures a bot that is not enabled: recipients are
\* added and removed between changes of the interval, the buttons and the
\* delivery mode; no job is registered and no cycle runs

GroupLines == [removing : BOOLEAN, gid : Gids \cup {0}]
GroupMessages ==
    {Message(<<"@">>, <<"pair">>, lines, <<>>, NoPhoto)
        : lines \in UNION {[1..k -> GroupLines] : k \in 1..MaxLines}}

InitGroups == InitWith({NoFile, [DEFAULTS EXCEPT !.groups = <<1>>]})

NextGroups ==
    \/ Startup
    \/ \E u \in {Owner, Stranger},
          data \in {"m:groups", "m:interval", "m:buttons", "m:mode", "m:disable"} :
          MenuCallback(u, data)
    \/ \E u \in {Owner, Stranger}, msg \in GroupMessages \cup {TextTen} :
          PrivateMessage(u, msg)

SpecGroups == InitGroups /\ [][NextGroups]_vars

AddText(g) == Message(<<"@">>, <<"pair">>, <<[removing |-> FALSE, gid |-> g]>>, <<>>, NoPhoto)
RemoveText(g) == Message(<<"@">>, <<"pair">>, <<[removing |-> TRUE, gid |-> g]>>, <<>>, NoPhoto)
AfterGroupsText(msg) ==
    owner_dm_handler([World EXCEPT !.mode = "set_groups"], Owner, msg).store.groups

----------------------------------------------------------------------------
\* SpecMin: a bot that starts without a settings file, while the owner
\* enables, disables and answers the interval prompt with texts that parse,
\* texts below the minimum and texts that do not parse; no recipients

TextNine == Message(<<"9">>, <<"pair">>, NoRefs, <<>>, NoPhoto)
TextZeroMin == Message(<<"0", "m">>, <<"pair">>, NoRefs, <<>>, NoPhoto)
TextOneMin == Message(<<"1", "m">>, <<"pair">>, NoRefs, <<>>, NoPhoto)
TextUnit == Message(<<"m">>, <<"pair">>, NoRefs, <<>>, NoPhoto)
\* a sticker: no text, no photo
NoText == Message(<<>>, <<>>, <<>>, <<>>, NoPhoto)

IntervalTexts ==
    {TextTen, TextOneMin, TextFive, TextNine, TextZeroMin, TextX, TextUnit, NoText}

InitMin == InitWith({NoFile})

NextMin ==
    \/ Startup
    \/ \E u \in {Owner, Stranger}, data \in {"m:enable", "m:disable", "m:interval"} :
          MenuCallback(u, data)
    \/ \E u \in {Owner, Stranger}, msg \in IntervalTexts : PrivateMessage(u, msg)
    \/ \E j \in jobs : JobFire(j)
    \/ \E c \in Slots : CycleStart(c)
    \/ Tick

SpecMin == InitMin /\ [][NextMin]_vars

\* the answers "5", "9", "0m" (below the minimum) and "x", "m", no text (not
\* an interval)
C21_Rejected == {TextFive, TextNine, TextZeroMin, TextX, TextUnit, NoText}

C21_AfterAnswer(msg) == owner_dm_handler([World EXCEPT !.mode = "set_interval"], Owner, msg)

\* C21: the stored interval is never below MinSeconds, and an answer to the
\* interval prompt that is below the minimum or is no interval gets the
\* "Error: ..." reply and leaves the settings, the file and the GLOBAL_POSTER
\* job as they are (reschedule_job is not called); the prompt stays pending.
C21_IntervalAtLeastMin ==
    /\ store.seconds >= MinSeconds
    /\ \A j \in jobs : j.interval >= Ticks(MinSeconds)
    /\ \A msg \in C21_Rejected :
          LET w == C21_AfterAnswer(msg)
          IN /\ w.reply = "error"
             /\ w.store = store
             /\ w.disk = disk
             /\ ~w.resched
             /\ w.mode = "set_interval"

\* the owner has set one minute while enabled and asked for the prompt again:
\* the job of the one-minute interval has run and the prompt is pending
C21_Witness ==
    /\ store.seconds = 60
    /\ store.enabled
    /\ mode = "set_interval"
    /\ \E j \in jobs : j.interval = Ticks(60) /\ j.due > 0

----------------------------------------------------------------------------
\* SpecPayload: the owner of a bot that starts without a settings file sets
\* the message, sets and clears the photo and imports templates; broadcasting
\* stays disabled

\* "none" sent as a text
TextNone == Message(<<"n", "o", "n", "e">>, <<"pair">>, NoRefs, <<>>, NoPhoto)
\* a sticker of the private chat, replied to with /import
StickerPost == SrcMessage(100, 8, 0, 0, FALSE, <<>>, <<>>, <<>>, <<>>, NoPhoto)

PayloadTexts == {TextX, TextTen, TextNone, NoText, PhotoUpload}
PayloadSources == {NoSrc, ChannelPost, OwnPost, StickerPost}

InitPayload == InitWith({NoFile})

NextPayload ==
    \/ Startup
    \/ \E u \in {Owner, Stranger}, data \in {"m:message", "m:photo", "m:menu"} :
          MenuCallback(u, data)
    \/ \E u \in {Owner, Stranger}, msg \in PayloadTexts : PrivateMessage(u, msg)
    \/ \E u \in {Owner, Stranger}, src \in PayloadSources : ImportUpdate(u, src)

SpecPayload == InitPayload /\ [][NextPayload]_vars

\* C22: in every state a template is stored, or the stored text is not
\* empty, or a photo is stored.
C22_PayloadDefined ==
    \/ HasTemplate(store.template)
    \/ store.message # <<>>
    \/ store.photo # NoPhoto

----------------------------------------------------------------------------
\* SpecPersist: every operation of the owner that writes the settings, on a
\* bot that starts without a settings file; the job queue is left out (no
\* execution of send_to_all_groups writes the settings)

\* "[{}]" sent as a text: parse_buttons_flexible returns the parsed list
TextJson == Message(<<"[", "{", "}", "]">>, <<"junk">>, NoRefs, <<>>, NoPhoto)

PersistTexts == {TextTen, TextAdd(1), TextJson, PhotoUpload}

PersistCommands ==
    {Command("mode", ArgForward, NoSrc, TRUE, AllOk),
     Command("entities", <<"[", "]">>, NoSrc, TRUE, AllOk),
     Command("entities", <<>>, NoSrc, TRUE, AllOk),
     Command("import", <<>>, ChannelPost, TRUE, AllOk),
     Command("attach", <<>>, NoSrc, TRUE, AllOk),
     Command("attach", <<>>, NoSrc, FALSE, AllOk),
     Command("detach", <<>>, NoSrc, TRUE, AllOk),
     Command("detach", <<>>, NoSrc, FALSE, AllOk)}

InitPersist == InitWith({NoFile})

NextPersist ==
    \/ Startup
    \/ \E data \in MenuData : MenuCallback(Owner, data)
    \/ \E msg \in PersistTexts : PrivateMessage(Owner, msg)
    \/ \E c \in PersistCommands : CommandUpdate(Owner, c)

SpecPersist == InitPersist /\ [][NextPersist]_vars

\* C23: between two updates the settings file holds the settings in memory
\* (or there is no file yet and the settings are the defaults), and every
\* update that changes the settings leaves the file equal to them.
C23_Saved == disk = store \/ (disk = NoFile /\ store = DEFAULTS)

C23_PersistedAfterEveryChange ==
    /\ []C23_Saved
    /\ [][store' # store => disk' = store']_vars

\* the file holds what enable, the mode toggle, set interval, set photo, set
\* buttons, set groups, /entities [] and /import of a post with a keyboard
\* have written
C23_Witness ==
    /\ disk = store
    /\ store.enabled
    /\ store.use_forward
    /\ store.seconds = MinSeconds
    /\ store.photo # NoPhoto
    /\ store.buttons # <<>>
    /\ store.groups # <<>>
    /\ store.entities = <<>>
    /\ HasTemplate(store.template)
    /\ store.template_has_keyboard

----------------------------------------------------------------------------
\* SpecStranger: users who are no owners send every kind of update to an
\* enabled bot with one recipient, while the owner opens the input prompts
\* and the cycles deliver

StrangerInGroup == [owner |-> FALSE, private |-> FALSE]
NonOwners == {Stranger, StrangerInGroup}

StrangerFiles ==
    {[DEFAULTS EXCEPT !.enabled = TRUE, !.groups = <<1>>, !.buttons = <<"pair">>,
                      !.template = Template, !.use_forward = f] : f \in BOOLEAN}

StrangerTexts == {TextTen, TextAdd(2), TextNone, TextJson, PhotoUpload}

StrangerCommands ==
    {Command(name, <<>>, NoSrc, TRUE, AllOk) : name \in CommandNames}
    \cup {Command("mode", ArgForward, NoSrc, TRUE, AllOk),
          Command("entities", <<"[", "]">>, NoSrc, TRUE, AllOk),
          Command("import", <<>>, OwnPost, TRUE, AllOk),
          Command("forward", <<>>, OwnPost, TRUE, AllOk)}

\* the menu buttons that open an input prompt, and the one that closes it
OwnerPrompts == {"m:interval", "m:message", "m:photo", "m:buttons", "m:groups", "m:menu"}

InitStranger == InitWith(StrangerFiles)

NextStranger ==
    \/ Startup
    \/ \E data \in OwnerPrompts : MenuCallback(Owner, data)
    \/ CommandUpdate(Owner, Command("entities", <<>>, NoSrc, TRUE, AllOk))
    \/ \E u \in NonOwners, data \in MenuData : MenuCallback(u, data)
    \/ \E msg \in StrangerTexts : PrivateMessage(Stranger, msg)
    \/ \E u \in NonOwners, c \in StrangerCommands : CommandUpdate(u, c)
    \/ \E j \in jobs : JobFire(j)
    \/ CycleStep
    \/ Tick

SpecStranger == InitStranger /\ [][NextStranger]_vars

\* the handlers of an update have changed nothing and called nothing
C24_Untouched(w) ==
    /\ w.store = store
    /\ w.disk = disk
    /\ w.mode = mode
    /\ w.captured = captured
    /\ w.summary = summary
    /\ ~w.resched

\* C24: whatever the settings, the pending input mode and the running
\* cycles, the handlers of a menu callback, a private message or a command
\* of a user who is no owner leave the settings, the file, the pending mode
\* and the GLOBAL_POSTER job as they are and make no call to a recipient.
C24_NonOwnerChangesNothing ==
    \A u \in NonOwners :
        /\ \A data \in MenuData : C24_Untouched(on_menu_cb(World, u, data))
        /\ \A msg \in StrangerTexts :
              C24_Untouched(owner_dm_handler(entities_followup(World, u, msg), u, msg))
        /\ \A c \in StrangerCommands :
              C24_Untouched(owner_dm_handler(RunCommand(World, u, c), u, CommandMessage(c)))

\* an input prompt of the owner is pending, a template and a recipient are
\* stored, the job is registered and a cycle has delivered
C24_Witness ==
    /\ mode = "set_groups"
    /\ store.enabled
    /\ HasTemplate(store.template)
    /\ store.groups # <<>>
    /\ jobs # {}
    /\ \E c \in Slots : cyc[c].pc = "done" /\ cyc[c].sent

----------------------------------------------------------------------------
\* SpecTemplate: the owner of an enabled bot with one recipient imports a
\* template and sets the message and the photo, before and after, while the
\* cycles deliver; every call returns

TemplateFiles == {[DEFAULTS EXCEPT !.enabled = TRUE, !.groups = <<1>>]}

InitTemplate == InitWith(TemplateFiles)

NextTemplate ==
    \/ Startup
    \/ \E data \in {"m:message", "m:photo"} : MenuCallback(Owner, data)
    \/ \E msg \in {TextX, TextNone, PhotoUpload} : PrivateMessage(Owner, msg)
    \/ \E src \in {NoSrc, ChannelPost} : ImportUpdate(Owner, src)
    \/ \E j \in jobs : JobFire(j)
    \/ \E c \in Slots : OkCycleStepOf(c)
    \/ Tick

SpecTemplate == InitTemplate /\ [][NextTemplate]_vars

\* an execution that found a template issues nothing but copies or forwards
\* of it (and the buttons message after a forward); nothing of the stored
\* message or photo is in its calls
C25_TemplateCalls(c) ==
    (Running(c) /\ HasTemplate(cyc[c].tpl)) =>
        /\ cyc[c].lastCall.kind \in {"copy", "forward", "buttons"}
        /\ cyc[c].lastCall.kind \in {"copy", "forward"} => cyc[c].lastCall.from = cyc[c].tpl
        /\ cyc[c].lastCall.text = <<>>
        /\ cyc[c].lastCall.photo = NoPhoto

\* no step clears a stored template, and an execution that passes the
\* enabled check while a template is stored takes that template
C25_Step ==
    /\ HasTemplate(store.template) => HasTemplate(store'.template)
    /\ \A c \in Slots :
          (cyc[c].pc = "pending" /\ cyc'[c].pc \in RunningPcs /\ HasTemplate(store.template)) =>
              /\ cyc'[c].tpl = store.template
              /\ cyc'[c].lastCall.kind \in {"copy", "forward"}
              /\ cyc'[c].lastCall.from = store.template

\* C25: once a template is stored it stays stored; every execution that
\* starts later delivers by copy_message or forward_message of the stored
\* template, whatever message and photo have been set since.
C25_TemplateStays ==
    /\ [](\A c \in Slots : C25_TemplateCalls(c))
    /\ [][C25_Step]_vars

\* after the import the owner has set the message "x" and a photo, and an
\* execution is copying the template
C25_Witness ==
    /\ HasTemplate(store.template)
    /\ store.message = <<"x">>
    /\ store.photo # NoPhoto
    /\ \E c \in Slots :
          /\ cyc[c].pc = "att1"
          /\ cyc[c].lastCall.kind = "copy"
          /\ cyc[c].lastCall.from = store.template

----------------------------------------------------------------------------
\* SpecForward: the owner replies /forward to a message, on a bot whose file
\* holds a recipient list (with repeated ids) and is enabled or not; the job
\* queue is left out

\* what happens to the calls for one recipient: all return; the buttons
\* message raises; the forward is rate limited and the retry returns, with
\* the buttons message returning or raising; the retry raises or is rate
\* limited again; the forward raises a network error or another error
RetryThen(retry, fu2) == [first |-> RateLimited(1), fu |-> Ok, retry |-> retry, fu2 |-> fu2]
Scenarios ==
    {[first |-> Ok, fu |-> Ok, retry |-> Ok, fu2 |-> Ok],
     [first |-> Ok, fu |-> Permanent, retry |-> Ok, fu2 |-> Ok],
     [first |-> Ok, fu |-> RateLimited(1), retry |-> Ok, fu2 |-> Ok],
     RetryThen(Ok, Ok), RetryThen(Ok, Transient), RetryThen(Permanent, Ok),
     RetryThen(RateLimited(1), Ok),
     [first |-> Transient, fu |-> Ok, retry |-> Ok, fu2 |-> Ok],
     [first |-> Permanent, fu |-> Ok, retry |-> Ok, fu2 |-> Ok]}

\* recipient lists as an earlier version or a hand edit left them in the
\* file: ids may repeat
RepeatedLists == {<<>>, <<1>>, <<1, 1>>, <<1, 2>>, <<2, 1, 2>>}

ForwardFiles ==
    {[DEFAULTS EXCEPT !.enabled = e, !.groups = g, !.buttons = b]
        : e \in BOOLEAN, g \in RepeatedLists, b \in {<<>>, <<"pair">>}}

InitForward == InitWith(ForwardFiles)

NextForward ==
    \/ Startup
    \/ \E u \in {Owner, Stranger}, src \in {NoSrc, OwnPost},
          outs \in [Range(store.groups) -> Scenarios] :
          CommandUpdate(u, Command("forward", <<>>, src, TRUE, outs))

SpecForward == InitForward /\ [][NextForward]_vars

\* the counts of the last /forward: every unique recipient is either counted
\* as forwarded or listed as failed, never both and never twice, and a
\* recipient whose buttons message raised is not in the fail list
C26_Counts ==
    LET unique == Range(store.groups)
        failed == Range(summary.failed)
        forwards(g) == {i \in 1..Len(summary.calls) :
                            summary.calls[i].kind = "forward" /\ summary.calls[i].gid = g}
    IN summary # NoSummary =>
          /\ summary.forwarded + Len(summary.failed) = Cardinality(unique)
          /\ NoDup(summary.failed)
          /\ failed \subseteq unique
          /\ summary.forwarded = Cardinality(unique \ failed)
          /\ Range(summary.warned) \cap failed = {}
          /\ \A g \in unique : Cardinality(forwards(g)) \in {1, 2}

\* a /forward the owner sends now as a reply, with every call returning,
\* forwards to every unique recipient, whatever "enabled" is
C26_RunsNow ==
    LET after == cmd_forward(World, Owner, OwnPost, AllOk).summary
    IN /\ after.forwarded = Cardinality(Range(store.groups))
       /\ after.failed = <<>>

\* C26: /forward does not look at "enabled"; when it has finished,
\* forwarded_count plus the length of the fail list is the number of unique
\* recipients, and a buttons message that raised leaves its recipient
\* counted as forwarded.
C26_ForwardAccountsForAll == C26_Counts /\ C26_RunsNow

\* broadcasting is disabled and the list repeats an id: one recipient was
\* forwarded to although its buttons message raised, the other failed
C26_Witness ==
    /\ ~store.enabled
    /\ ~NoDup(store.groups)
    /\ summary.forwarded = 1
    /\ Len(summary.failed) = 1
    /\ Len(summary.warned) = 1

----------------------------------------------------------------------------
\* SpecCommand: the owner opens input prompts and sends commands and texts,
\* on a bot that starts without a settings file; broadcasting stays disabled

OwnerCommands ==
    {Command("preview", <<>>, NoSrc, TRUE, AllOk),
     Command("menu", <<>>, NoSrc, TRUE, AllOk),
     Command("mode", <<>>, NoSrc, TRUE, AllOk),
     Command("mode", ArgForward, NoSrc, TRUE, AllOk),
     Command("mode", ArgCopy, NoSrc, TRUE, AllOk),
     Command("entities", <<>>, NoSrc, TRUE, AllOk)}

InitCommand == InitWith({NoFile})

NextCommand ==
    \/ Startup
    \/ \E data \in OwnerPrompts : MenuCallback(Owner, data)
    \/ \E c \in OwnerCommands : CommandUpdate(Owner, c)
    \/ \E msg \in {TextX, TextJson} : PrivateMessage(Owner, msg)

SpecCommand == InitCommand /\ [][NextCommand]_vars

\* C27: a command message of the owner leaves the settings and the pending
\* input mode as its command handler alone leaves them: the message is not
\* taken as the input of a pending mode as well.
C27_CommandHandledOnce ==
    [][\A c \in OwnerCommands :
          CommandUpdate(Owner, c) =>
              /\ store' = RunCommand(World, Owner, c).store
              /\ mode' = RunCommand(World, Owner, c).mode]_vars

----------------------------------------------------------------------------
\* SpecAttach: the owner sets buttons, the message and the delivery mode,
\* imports posts with and without an inline keyboard and sends /attach and
\* /detach, the edit of the original post succeeding or failing;
\* broadcasting stays disabled

Attach(ok) == Command("attach", <<>>, NoSrc, ok, AllOk)
Detach(ok) == Command("detach", <<>>, NoSrc, ok, AllOk)

AttachSources == {NoSrc, ChannelPost, OwnPost}

InitAttach == InitWith({NoFile})

NextAttach ==
    \/ Startup
    \/ \E data \in {"m:buttons", "m:message", "m:mode", "m:menu"} :
          MenuCallback(Owner, data)
    \/ \E msg \in {TextX, TextJson, NoText} : PrivateMessage(Owner, msg)
    \/ \E u \in {Owner, Stranger}, src \in AttachSources : ImportUpdate(u, src)
    \/ \E u \in {Owner, Stranger}, ok \in BOOLEAN : CommandUpdate(u, Attach(ok))
    \/ \E u \in {Owner, Stranger}, ok \in BOOLEAN : CommandUpdate(u, Detach(ok))

SpecAttach == InitAttach /\ [][NextAttach]_vars

\* what /attach and /detach would do to the current settings
C28_Handlers ==
    LET ready == HasTemplate(store.template)
        kb == build_keyboard(store.buttons)
        attach(ok) == cmd_attach(World, Owner, ok)
        detach(ok) == cmd_detach(World, Owner, ok)
        Kept(w) == w.store = store /\ w.disk = disk /\ ~w.resched /\ w.reply # "done"
        Set(w, b) ==
            /\ w.store = [store EXCEPT !.template_has_keyboard = b]
            /\ w.disk = w.store
            /\ w.reply = "done"
    IN /\ Kept(attach(FALSE))
       /\ Kept(detach(FALSE))
       /\ IF ready /\ kb # <<>> THEN Set(attach(TRUE), TRUE) ELSE Kept(attach(TRUE))
       /\ IF ready THEN Set(detach(TRUE), FALSE) ELSE Kept(detach(TRUE))
       /\ \A src \in AttachSources \ {NoSrc} :
             cmd_import(World, Owner, src).store.template_has_keyboard = src.has_kb

\* the flag changes only by an /attach or /detach of the owner whose edit
\* succeeded, or by an /import
C28_Step ==
    store'.template_has_keyboard # store.template_has_keyboard =>
        \/ /\ CommandUpdate(Owner, Attach(TRUE))
           /\ HasTemplate(store.template)
           /\ build_keyboard(store.buttons) # <<>>
           /\ store'.template_has_keyboard
        \/ /\ CommandUpdate(Owner, Detach(TRUE))
           /\ HasTemplate(store.template)
           /\ ~store'.template_has_keyboard
        \/ \E src \in AttachSources \ {NoSrc} :
              /\ ImportUpdate(Owner, src)
              /\ store'.template_has_keyboard = src.has_kb

\* C28: template_has_keyboard becomes true only by an /attach whose edit
\* succeeded (a template and a keyboard being stored), false only by a
\* /detach whose edit succeeded (a template being stored), and /import sets
\* it to whether the replied-to message has an inline keyboard; an /attach
\* or /detach that fails, or finds no template or no keyboard, writes
\* nothing.
C28_FlagOnlyOnSuccess ==
    /\ []C28_Handlers
    /\ [][C28_Step]_vars

\* a post without keyboard was imported, buttons were set and /attach has
\* set the flag
C28_Witness ==
    /\ store.template = [chat_id |-> 100, message_id |-> 6]
    /\ build_keyboard(store.buttons) # <<>>
    /\ store.template_has_keyboard
    /\ disk = store

====
